---- MODULE Spec2Model ----
(***************************************************************************)
(* A model of crates/hir/src/lib.rs (rust-analyzer's `hir` facade):        *)
(*  - Module::scope and ScopeDef::all_items,                               *)
(*  - DefWithBody::diagnostics, emit_def_diagnostic and                    *)
(*    precise_macro_call_location,                                         *)
(*  - the Type facade (trait predicates, candidate iteration, derived      *)
(*    types, autoderef, walk).                                             *)
(* Every operation is a function of its receiver and of the query          *)
(* database; an action draws the database's answers from small sets,       *)
(* applies the operation and records the call.                             *)
(***************************************************************************)
EXTENDS Integers, Sequences, FiniteSets, TLC

VARIABLES
    op,        \* name of the last operation called
    arg,       \* its inputs: the receiver and the database's answers
    ret,       \* what it returned
    calls,     \* the values the caller's callback was invoked with, in order
    acc,       \* the caller's diagnostics accumulator (&mut Vec<AnyDiagnostic>)
    panicked,  \* the last call unwound with a panic instead of returning
    envs_built \* the trait environments the last call built or queried

vars == <<op, arg, ret, calls, acc, panicked, envs_built>>

(***************************************************************************)
(* Option<T>: None is the empty sequence, Some(x) the one-element one.     *)
(***************************************************************************)
None == <<>>
Some(x) == <<x>>
IsSome(o) == Len(o) = 1
IsNone(o) == Len(o) = 0
Unwrap(o) == o[1]
Option(S) == {None} \cup {Some(x) : x \in S}

RECURSIVE Flatten(_)
Flatten(ss) == IF ss = <<>> THEN <<>> ELSE Head(ss) \o Flatten(Tail(ss))

Range(s) == {s[i] : i \in DOMAIN s}

(***************************************************************************)
(* The module tree of the crate's def map.                                 *)
(***************************************************************************)
MaxModules == 2
Modules == 0..(MaxModules - 1)
Root == 0

\* def_map[m].parent for each tree over Modules: the root has none, and a
\* module's parent was allocated before it.
ModuleTrees ==
    {t \in [Modules -> Option(Modules)] :
        /\ t[Root] = None
        /\ \A m \in Modules \ {Root} : IsSome(t[m]) /\ Unwrap(t[m]) < m}

Parent(tree, m) == tree[m]

\* a variant that answers the module alone, without walking to its parents
path_to_root_self_only(tree, m) == <<m>>

\* a variant that stops at the parent
path_to_root_parent_only(tree, m) ==
    IF IsSome(Parent(tree, m)) THEN <<m, Unwrap(Parent(tree, m))>> ELSE <<m>>

\* Module::path_to_root
RECURSIVE path_to_root(_, _)
path_to_root(tree, m) ==
    IF IsSome(Parent(tree, m))
        THEN <<m>> \o path_to_root(tree, Unwrap(Parent(tree, m)))
        ELSE <<m>>

(***************************************************************************)
(* Visibility and per-namespace scope slots (hir_def).                     *)
(***************************************************************************)
VisPublic == [tag |-> "Public", module |-> Root]
VisModule(m) == [tag |-> "Module", module |-> m]
Visibilities == {VisPublic} \cup {VisModule(m) : m \in Modules}

\* Visibility::is_visible_from: a restricted item is visible from the module
\* it is restricted to and from that module's descendants.
is_visible_from(tree, vis, from) ==
    \/ vis.tag = "Public"
    \/ vis.module \in Range(path_to_root(tree, from))

\* A PerNs slot: for each namespace None or Some((definition id, visibility)).
TypeDefs == {1}
ValueDefs == {1, 2}
MacroDefs == {3}
NsEntries(defs) == Option({[def |-> d, vis |-> v] : d \in defs, v \in Visibilities})
PerNsSet ==
    {[types |-> t, values |-> v, macros |-> m] :
        t \in NsEntries(TypeDefs), v \in NsEntries(ValueDefs), m \in NsEntries(MacroDefs)}

NsFilter(tree, e, from) ==
    IF IsSome(e) /\ is_visible_from(tree, Unwrap(e).vis, from) THEN e ELSE None

\* PerNs::filter_visibility with the closure |vis| vis.is_visible_from(db, m.id)
filter_visibility(tree, def, from) ==
    [types  |-> NsFilter(tree, def.types, from),
     values |-> NsFilter(tree, def.values, from),
     macros |-> NsFilter(tree, def.macros, from)]

PerNs_is_none(def) == IsNone(def.types) /\ IsNone(def.values) /\ IsNone(def.macros)

take(e) == IF IsSome(e) THEN Some(Unwrap(e).def) ELSE None

(***************************************************************************)
(* ScopeDef::all_items                                                     *)
(***************************************************************************)
ScopeDefModuleDef(d) == [tag |-> "ModuleDef", kind |-> "Item", id |-> d]
ScopeDefMacro(d) == [tag |-> "ModuleDef", kind |-> "Macro", id |-> d]
ScopeDefUnknown == [tag |-> "Unknown", kind |-> "Unknown", id |-> 0]

\* a variant that does not de-duplicate a definition held in both namespaces
all_items_no_dedup(def) ==
    LET tv == (IF IsSome(def.types) THEN <<ScopeDefModuleDef(Unwrap(def.types).def)>> ELSE <<>>)
              \o (IF IsSome(def.values) THEN <<ScopeDefModuleDef(Unwrap(def.values).def)>> ELSE <<>>)
        items == tv \o (IF IsSome(def.macros) THEN <<ScopeDefMacro(Unwrap(def.macros).def)>> ELSE <<>>)
    IN  IF items = <<>> THEN <<ScopeDefUnknown>> ELSE items

all_items(def) ==
    LET t == take(def.types)
        v == take(def.values)
        tv == CASE IsSome(t) /\ IsNone(v) -> <<ScopeDefModuleDef(Unwrap(t))>>
                [] IsNone(t) /\ IsSome(v) -> <<ScopeDefModuleDef(Unwrap(v))>>
                [] IsSome(t) /\ IsSome(v) ->
                     IF Unwrap(t) # Unwrap(v)
                         THEN <<ScopeDefModuleDef(Unwrap(t)), ScopeDefModuleDef(Unwrap(v))>>
                         ELSE <<ScopeDefModuleDef(Unwrap(t))>>
                [] OTHER -> <<>>
        m == take(def.macros)
        items == IF IsSome(m) THEN tv \o <<ScopeDefMacro(Unwrap(m))>> ELSE tv
    IN  IF items = <<>> THEN <<ScopeDefUnknown>> ELSE items

(***************************************************************************)
(* Module::scope                                                           *)
(***************************************************************************)
MaxNames == 1
Names == 1..MaxNames
\* the entries of a module's item scope: entries[n] is the slot of name n
ItemScopes == [Names -> PerNsSet]

\* a variant that keeps a name whose definitions are all hidden
scope_filter_keep_hidden(tree, def, visible_from) ==
    IF IsSome(visible_from)
        THEN Some(filter_visibility(tree, def, Unwrap(visible_from)))
        ELSE Some(def)

\* the filter_map closure: None drops the name, Some(def) keeps it
scope_filter(tree, def, visible_from) ==
    IF IsSome(visible_from)
        THEN LET filtered == filter_visibility(tree, def, Unwrap(visible_from))
             IN  IF PerNs_is_none(filtered) /\ ~PerNs_is_none(def)
                     THEN None
                     ELSE Some(filtered)
        ELSE Some(def)

scope_entry(tree, name, def, visible_from) ==
    LET kept == scope_filter(tree, def, visible_from)
    IN  IF IsSome(kept)
            THEN LET items == all_items(Unwrap(kept))
                 IN  [i \in 1..Len(items) |-> <<name, items[i]>>]
            ELSE <<>>

Module_scope(tree, entries, visible_from) ==
    Flatten([n \in Names |-> scope_entry(tree, n, entries[n], visible_from)])

(***************************************************************************)
(* Syntax and source pointers.  A pointer or range is <<kind, id, i, j>>.  *)
(***************************************************************************)
Ptr(kind, id, i, j) == <<kind, id, i, j>>

\* The macro calls of the analysed file: ast_id.to_node(db) of a function-like
\* call has a path with a last segment, and the segment a name reference, or
\* lacks them ("m!()", "self!()", "!()").
MacroCallNodes ==
    [call     |-> [segment |-> TRUE,  name_ref |-> TRUE],
     call_kw  |-> [segment |-> TRUE,  name_ref |-> FALSE],
     call_bad |-> [segment |-> FALSE, name_ref |-> FALSE]]
MacroCallIds == DOMAIN MacroCallNodes

Tok(kind, text) == [kind |-> kind, text |-> text]
Attr(path, tt) == [is_attr |-> TRUE, path |-> path, token_tree |-> tt]
DocComment == [is_attr |-> FALSE, path |-> None, token_tree |-> None]

\* The items of the analysed file: doc_comments_and_attrs() in source order
\* and the item's name.
\*   derived:   #[derive(Foo, Bar)] struct derived;
\*   commented: /// doc   #[derive(Foo)] struct commented;
\*   no_args:   #[derive] impl T {}     (an impl has no name)
ItemNodes ==
    [derived |->
        [name  |-> Some("derived"),
         attrs |-> <<Attr(Some("derive"),
                          Some(<<Tok("(", "("), Tok("ident", "Foo"), Tok(",", ","),
                                 Tok("ws", " "), Tok("ident", "Bar"), Tok(")", ")")>>))>>],
     commented |->
        [name  |-> Some("commented"),
         attrs |-> <<DocComment,
                     Attr(Some("derive"),
                          Some(<<Tok("(", "("), Tok("ident", "Foo"), Tok(")", ")")>>))>>],
     no_args |->
        [name  |-> None,
         attrs |-> <<Attr(Some("derive"), None)>>]]
ItemIds == DOMAIN ItemNodes

\* iter.nth(n) of a sequence, 0-based
Nth(seq, n) == IF n + 1 <= Len(seq) THEN Some(seq[n + 1]) ELSE None

\* a variant that counts the doc comments as attributes
attrs_with_doc_comments(item) ==
    [i \in 1..Len(ItemNodes[item].attrs) |-> i]

\* node.attrs(): the positions of the attributes among doc comments and attributes
attrs(item) ==
    LET elems == ItemNodes[item].attrs
    IN  SelectSeq([i \in 1..Len(elems) |-> i], LAMBDA i : elems[i].is_attr)

\* Itertools::group_by(|t| t.kind() == T![,]) followed by filter(!comma): the
\* maximal runs of consecutive non-comma tokens, each as its token positions.
RECURSIVE non_comma_groups(_, _, _)
non_comma_groups(tokens, i, run) ==
    IF i > Len(tokens)
        THEN (IF run = <<>> THEN <<>> ELSE <<run>>)
    ELSE IF tokens[i].kind = ","
        THEN (IF run = <<>> THEN <<>> ELSE <<run>>) \o non_comma_groups(tokens, i + 1, <<>>)
    ELSE non_comma_groups(tokens, i + 1, Append(run, i))

\* group.find(|t| t.kind() == T![ident]): the first identifier of a run
find_ident(tokens, run) ==
    LET idents == SelectSeq(run, LAMBDA i : tokens[i].kind = "ident")
    IN  IF idents = <<>> THEN None ELSE Some(idents[1])

(***************************************************************************)
(* precise_macro_call_location                                             *)
(***************************************************************************)
\* the recorded indices: each hits an element of some item and misses in another
AttrIndices == {0, 1}
DeriveIndices == {0, 1}
MacroCallKinds ==
    {[tag |-> "FnLike", ast_id |-> m, attr_index |-> 0, derive_index |-> 0] : m \in MacroCallIds}
    \cup {[tag |-> "Derive", ast_id |-> i, attr_index |-> a, derive_index |-> d] :
            i \in ItemIds, a \in AttrIndices, d \in DeriveIndices}
    \cup {[tag |-> "Attr", ast_id |-> i, attr_index |-> a, derive_index |-> 0] :
            i \in ItemIds, a \in AttrIndices}

Location(node, precise_location, macro_name, kind) ==
    [panic |-> FALSE, node |-> node, precise_location |-> precise_location,
     macro_name |-> macro_name, kind |-> kind]
LocationPanic ==
    [panic |-> TRUE, node |-> Ptr("none", "none", 0, 0), precise_location |-> None,
     macro_name |-> None, kind |-> "none"]

\* the end of the closure: the first identifier of the derive_index-th run of
\* non-comma tokens of the token tree (its parentheses are tokens of it)
token_in_list(tokens, derive_index) ==
    LET group == Nth(non_comma_groups(tokens, 1, <<>>), derive_index)
    IN  IF IsNone(group) THEN None ELSE find_ident(tokens, Unwrap(group))

\* the closure computing the derive's token: the position of the identifier in
\* the token tree of the derive attribute
derive_token(ast) ==
    LET elems == ItemNodes[ast.ast_id].attrs
        derive_attr == Nth(elems, ast.attr_index)
    IN  IF IsNone(derive_attr) \/ ~Unwrap(derive_attr).is_attr THEN None
        ELSE IF IsNone(Unwrap(derive_attr).token_tree) THEN None
        ELSE token_in_list(Unwrap(Unwrap(derive_attr).token_tree), ast.derive_index)

attr_location(ast) ==
    LET attr == Nth(ItemNodes[ast.ast_id].attrs, ast.attr_index)
    IN  IF IsNone(attr) \/ ~Unwrap(attr).is_attr
            THEN LocationPanic    \* panic!("cannot find attribute #{}")
            ELSE Location(Ptr("attr", ast.ast_id, ast.attr_index, 0),
                          Some(Ptr("attr_range", ast.ast_id, ast.attr_index, 0)),
                          Unwrap(attr).path, "Attr")

precise_macro_call_location(ast) ==
    CASE ast.tag = "FnLike" ->
            LET node == MacroCallNodes[ast.ast_id]
            IN  Location(Ptr("macro_call", ast.ast_id, 0, 0),
                         IF node.segment /\ node.name_ref
                             THEN Some(Ptr("name_ref", ast.ast_id, 0, 0)) ELSE None,
                         IF node.segment THEN Some(ast.ast_id) ELSE None,
                         "ProcMacro")
      [] ast.tag = "Derive" ->
            LET token == derive_token(ast)
                tokens == Unwrap(ItemNodes[ast.ast_id].attrs[ast.attr_index + 1].token_tree)
            IN  Location(Ptr("item", ast.ast_id, 0, 0),
                         IF IsSome(token)
                             THEN Some(Ptr("token", ast.ast_id, ast.attr_index, Unwrap(token)))
                             ELSE None,
                         IF IsSome(token) THEN Some(tokens[Unwrap(token)].text) ELSE None,
                         "Derive")
      [] ast.tag = "Attr" -> attr_location(ast)

(***************************************************************************)
(* emit_def_diagnostic                                                     *)
(***************************************************************************)
Diagnostic(kind, node, precise_location, macro_name) ==
    [kind |-> kind, node |-> node, precise_location |-> precise_location,
     macro_name |-> macro_name, missed_fields |-> <<>>]

\* what handling one recorded diagnostic does: push a diagnostic, nothing, or panic
Push(d) == [push |-> <<d>>, panic |-> FALSE]
Skip == [push |-> <<>>, panic |-> FALSE]
Panic == [push |-> <<>>, panic |-> TRUE]

SimpleDefKinds == {"UnresolvedModule", "UnresolvedExternCrate", "UnresolvedImport", "UnconfiguredCode"}
MacroDefKinds == {"UnresolvedProcMacro", "UnresolvedMacroCall", "MacroError"}
DeriveDefKinds == {"InvalidDeriveTarget", "MalformedDerive"}

NoCall == [tag |-> "None", ast_id |-> "none", attr_index |-> 0, derive_index |-> 0]
DefDiag(kind, ast, call, id) == [stage |-> 1, kind |-> kind, ast |-> ast, call |-> call, id |-> id]

\* the DefDiagnostics a def map can record (DefDiagnosticKind)
DefDiagnostics ==
    {DefDiag(k, i, NoCall, 0) : k \in SimpleDefKinds, i \in {"derived"}}
    \cup {DefDiag(k, c.ast_id, c, 0) : k \in MacroDefKinds, c \in MacroCallKinds}
    \cup {DefDiag("UnimplementedBuiltinMacro", i, NoCall, 0) : i \in ItemIds}
    \cup {DefDiag(k, i, NoCall, id) : k \in DeriveDefKinds, i \in ItemIds, id \in AttrIndices}

DefKindOut(kind) == IF kind = "UnconfiguredCode" THEN "InactiveCode" ELSE kind

\* a variant whose stdx::never! aborts
emit_def_diagnostic_never_aborts(diag) ==
    CASE diag.kind \in SimpleDefKinds ->
            Push(Diagnostic(DefKindOut(diag.kind), Ptr("item", diag.ast, 0, 0), None, None))
      [] diag.kind \in DeriveDefKinds ->
            LET derive == Nth(attrs(diag.ast), diag.id)
            IN  IF IsSome(derive)
                    THEN Push(Diagnostic(diag.kind, Ptr("attr", diag.ast, Unwrap(derive) - 1, 0),
                                         None, None))
                    ELSE Panic
      [] OTHER -> Skip

emit_def_diagnostic(diag) ==
    CASE diag.kind \in SimpleDefKinds ->
            Push(Diagnostic(DefKindOut(diag.kind), Ptr("item", diag.ast, 0, 0), None, None))
      [] diag.kind \in MacroDefKinds ->
            LET loc == precise_macro_call_location(diag.call)
            IN  IF loc.panic THEN Panic
                ELSE Push(Diagnostic(diag.kind, loc.node, loc.precise_location,
                                     IF diag.kind = "UnresolvedProcMacro"
                                         THEN loc.macro_name ELSE None))
      [] diag.kind = "UnimplementedBuiltinMacro" ->
            \* node.name().expect("unimplemented builtin macro with no name")
            IF IsNone(ItemNodes[diag.ast].name) THEN Panic
            ELSE Push(Diagnostic(diag.kind, Ptr("name", diag.ast, 0, 0), None, None))
      [] diag.kind \in DeriveDefKinds ->
            LET derive == Nth(attrs(diag.ast), diag.id)
            IN  IF IsSome(derive)
                    THEN Push(Diagnostic(diag.kind, Ptr("attr", diag.ast, Unwrap(derive) - 1, 0),
                                         None, None))
                    ELSE Skip    \* stdx::never!: logged, nothing pushed

(***************************************************************************)
(* The body under diagnosis and its source map.                            *)
(***************************************************************************)
\* The expressions of the body: what the AST holds at the pointer the source
\* map gives for each ("synthetic" has no pointer: it was desugared).
ExprNodes ==
    [rec           |-> [mapped |-> TRUE,  kind |-> "RecordExpr", child |-> TRUE],
     rec_nolist    |-> [mapped |-> TRUE,  kind |-> "RecordExpr", child |-> FALSE],
     match         |-> [mapped |-> TRUE,  kind |-> "MatchExpr",  child |-> TRUE],
     match_noscrut |-> [mapped |-> TRUE,  kind |-> "MatchExpr",  child |-> FALSE],
     other         |-> [mapped |-> TRUE,  kind |-> "CallExpr",   child |-> FALSE],
     synthetic     |-> [mapped |-> FALSE, kind |-> "None",       child |-> FALSE]]
ExprIds == DOMAIN ExprNodes

\* The patterns of the body; a pattern pointer is Either<Pat, SelfParam>.
PatNodes ==
    [rec_pat        |-> [mapped |-> TRUE,  left |-> TRUE,  kind |-> "RecordPat", child |-> TRUE],
     rec_pat_nolist |-> [mapped |-> TRUE,  left |-> TRUE,  kind |-> "RecordPat", child |-> FALSE],
     ident_pat      |-> [mapped |-> TRUE,  left |-> TRUE,  kind |-> "IdentPat",  child |-> FALSE],
     self_param     |-> [mapped |-> TRUE,  left |-> FALSE, kind |-> "SelfParam", child |-> FALSE],
     synthetic_pat  |-> [mapped |-> FALSE, left |-> FALSE, kind |-> "None",      child |-> FALSE]]
PatIds == DOMAIN PatNodes

\* the expressions that are the value of a record-literal field: lowering
\* records a field pointer for each of them
field_map_back == {"rec", "other"}

\* BodySourceMap::expr_syntax: Ok(pointer) or Err(SyntheticSyntax)
expr_syntax(expr) ==
    IF ExprNodes[expr].mapped THEN Some(Ptr("expr", expr, 0, 0)) ELSE None

\* BodySourceMap::pat_syntax
pat_syntax(pat) ==
    IF PatNodes[pat].mapped THEN Some(Ptr("pat", pat, 0, 0)) ELSE None

\* BodySourceMap::field_syntax: the field pointer recorded for the expression
field_syntax(expr) == Ptr("field", expr, 0, 0)

(***************************************************************************)
(* DefWithBody::diagnostics                                                *)
(***************************************************************************)
\* what the queries record for the body, by the stage that reads it:
\*   1 body.blocks(db) def maps   2 source_map.diagnostics()
\*   3 infer.diagnostics          4 infer.expr_type_mismatches()
\*   5 missing_unsafe             6 BodyValidationDiagnostic::collect
\*   7 incorrect_case
BodyDiag(stage, kind, id) == [stage |-> stage, kind |-> kind, id |-> id]

BodyLoweringDiags ==
    {BodyDiag(2, k, "other") :
        k \in {"InactiveCode", "MacroError", "UnresolvedProcMacro", "UnresolvedMacroCall"}}
\* (inference reports NoSuchField on the value of a record-literal field)
InferenceDiags ==
    {BodyDiag(3, "NoSuchField", e) : e \in field_map_back}
    \cup {BodyDiag(3, k, e) : k \in {"BreakOutsideOfLoop", "MismatchedArgCount"}, e \in ExprIds}
TypeMismatches == {BodyDiag(4, "TypeMismatch", e) : e \in ExprIds}
MissingUnsafes == {BodyDiag(5, "MissingUnsafe", e) : e \in ExprIds}
\* variant.variant_data(db).fields(): the declared fields of struct S { a, b, c },
\* in declaration order
VariantFields == [S |-> <<"a", "b", "c">>]

\* the fields a record literal or record pattern of the body names, in the
\* order written: S { a: 1 } and S { c, a }
RecordLiterals == [lit_a |-> <<"a">>, lit_ca |-> <<"c", "a">>]

\* hir_ty record_literal_missing_fields / record_pattern_missing_fields: the
\* indices (0-based) of the declared fields the literal does not name, in
\* declaration order
record_missing_fields(variant, literal) ==
    LET declared == VariantFields[variant]
        missed == SelectSeq([i \in 1..Len(declared) |-> i],
                            LAMBDA i : \A k \in DOMAIN RecordLiterals[literal] :
                                          RecordLiterals[literal][k] # declared[i])
    IN  [i \in 1..Len(missed) |-> missed[i] - 1]

\* BodyValidationDiagnostic::RecordMissingFields { record, variant, missed_fields }
RecordMissingFields(kind, record, variant, literal) ==
    [stage |-> 6, kind |-> kind, id |-> record, variant |-> variant, literal |-> literal,
     missed_fields |-> record_missing_fields(variant, literal)]

ValidationDiags ==
    {BodyDiag(6, k, e) :
        k \in {"ReplaceFilterMapNextWithFindMap", "MissingMatchArms"}, e \in ExprIds}
    \cup {RecordMissingFields("RecordMissingFields", e, "S", l) :
            e \in ExprIds, l \in DOMAIN RecordLiterals}
    \cup {RecordMissingFields("RecordMissingFieldsPat", q, "S", l) :
            q \in PatIds, l \in DOMAIN RecordLiterals}
CaseDiags == {BodyDiag(7, "IncorrectCase", "other")}

\* the loop over source_map.diagnostics(): the node is the one lowering recorded
body_lowering_diagnostic(diag) ==
    Push(Diagnostic(diag.kind, Ptr("expr", diag.id, 0, 0), None, None))

\* a variant of the argument-count arm that reports a synthetic call too
mismatched_arg_count_unchecked(expr) ==
    Push(Diagnostic("MismatchedArgCount", Ptr("expr", expr, 0, 0), None, None))

mismatched_arg_count(expr) ==
    LET source_ptr == expr_syntax(expr)
    IN  IF IsSome(source_ptr)
            THEN Push(Diagnostic("MismatchedArgCount", Unwrap(source_ptr), None, None))
            ELSE Skip

\* the loop over infer.diagnostics
inference_diagnostic(d) ==
    CASE d.kind = "NoSuchField" ->
            LET field == field_syntax(d.id)
            IN  Push(Diagnostic("NoSuchField", field, None, None))
      [] d.kind = "BreakOutsideOfLoop" ->
            \* .expect("break outside of loop in synthetic syntax")
            LET expr == expr_syntax(d.id)
            IN  IF IsSome(expr)
                    THEN Push(Diagnostic("BreakOutsideOfLoop", Unwrap(expr), None, None))
                    ELSE Panic
      [] d.kind = "MismatchedArgCount" -> mismatched_arg_count(d.id)

\* the loop over infer.expr_type_mismatches()
type_mismatch(d) ==
    LET expr == expr_syntax(d.id)
    IN  IF IsSome(expr)
            THEN Push(Diagnostic("TypeMismatch", Unwrap(expr), None, None))
            ELSE Skip

\* the loop over missing_unsafe
missing_unsafe(d) ==
    LET expr == expr_syntax(d.id)
    IN  IF IsSome(expr)
            THEN Push(Diagnostic("MissingUnsafe", Unwrap(expr), None, None))
            ELSE Skip

\* a variant that takes the names from the front of the declaration
missed_field_names_from_front(variant, missed_fields) ==
    [i \in 1..Len(missed_fields) |-> VariantFields[variant][i]]

\* missed_fields.into_iter().map(|idx| variant_data.fields()[idx].name.clone())
missed_field_names(variant, missed_fields) ==
    [i \in 1..Len(missed_fields) |-> VariantFields[variant][missed_fields[i] + 1]]

\* the MissingFields diagnostic
MissingFields(field_list_parent, missed_fields) ==
    [Diagnostic("MissingFields", field_list_parent, None, None)
        EXCEPT !.missed_fields = missed_fields]

\* the loop over BodyValidationDiagnostic::collect
body_validation_diagnostic(d) ==
    CASE d.kind = "RecordMissingFields" ->
            LET source_ptr == expr_syntax(d.id)
            IN  IF IsSome(source_ptr)
                   /\ ExprNodes[d.id].kind = "RecordExpr"
                   /\ ExprNodes[d.id].child    \* record_expr_field_list().is_some()
                    THEN Push(MissingFields(Unwrap(source_ptr),
                                            missed_field_names(d.variant, d.missed_fields)))
                    ELSE Skip
      [] d.kind = "RecordMissingFieldsPat" ->
            LET source_ptr == pat_syntax(d.id)
            IN  IF IsSome(source_ptr)
                   /\ PatNodes[d.id].left
                   /\ PatNodes[d.id].kind = "RecordPat"
                   /\ PatNodes[d.id].child    \* record_pat_field_list().is_some()
                    THEN Push(MissingFields(Unwrap(source_ptr),
                                            missed_field_names(d.variant, d.missed_fields)))
                    ELSE Skip
      [] d.kind = "ReplaceFilterMapNextWithFindMap" ->
            LET next_source_ptr == expr_syntax(d.id)
            IN  IF IsSome(next_source_ptr)
                    THEN Push(Diagnostic("ReplaceFilterMapNextWithFindMap",
                                         Unwrap(next_source_ptr), None, None))
                    ELSE Skip
      [] d.kind = "MissingMatchArms" ->
            LET source_ptr == expr_syntax(d.id)
            IN  IF IsSome(source_ptr)
                   /\ ExprNodes[d.id].kind = "MatchExpr"
                   /\ ExprNodes[d.id].child    \* match_expr.expr() is Some
                    THEN Push(Diagnostic("MissingMatchArms",
                                         Ptr("scrutinee", d.id, 0, 0), None, None))
                    ELSE Skip

\* the loop over incorrect_case
incorrect_case(d) ==
    Push(Diagnostic("IncorrectCase", Ptr("name", d.id, 0, 0), None, None))

\* one iteration of the loop of the stage the recorded diagnostic belongs to
diagnostics_step(d) ==
    CASE d.stage = 1 -> emit_def_diagnostic(d)
      [] d.stage = 2 -> body_lowering_diagnostic(d)
      [] d.stage = 3 -> inference_diagnostic(d)
      [] d.stage = 4 -> type_mismatch(d)
      [] d.stage = 5 -> missing_unsafe(d)
      [] d.stage = 6 -> body_validation_diagnostic(d)
      [] d.stage = 7 -> incorrect_case(d)

\* a variant that puts each new diagnostic before the ones acc holds
RECURSIVE run_loops_push_front(_, _)
run_loops_push_front(recorded, pushed) ==
    IF recorded = <<>> THEN [acc |-> pushed, panicked |-> FALSE]
    ELSE LET o == diagnostics_step(Head(recorded))
         IN  IF o.panic THEN [acc |-> pushed, panicked |-> TRUE]
             ELSE run_loops_push_front(Tail(recorded), o.push \o pushed)

\* The loops run in stage order, each over its list in order; a panic unwinds
\* out of the call and leaves in acc what was pushed before it.
RECURSIVE run_loops(_, _)
run_loops(recorded, pushed) ==
    IF recorded = <<>> THEN [acc |-> pushed, panicked |-> FALSE]
    ELSE LET o == diagnostics_step(Head(recorded))
         IN  IF o.panic THEN [acc |-> pushed, panicked |-> TRUE]
             ELSE run_loops(Tail(recorded), pushed \o o.push)

DefWithBody_diagnostics(recorded, acc0) == run_loops(recorded, acc0)

MaxDiags == 2
RecordedDiags ==
    DefDiagnostics \cup BodyLoweringDiags \cup InferenceDiags \cup TypeMismatches
        \cup MissingUnsafes \cup ValidationDiags \cup CaseDiags

\* what the queries can record for one body, n entries in all, listed in the
\* order the stages read them
Recordings(n) ==
    {r \in [1..n -> RecordedDiags] :
        \A i \in 1..(n - 1) : r[i].stage <= r[i + 1].stage}

\* the accumulator the caller passes: new, or holding a diagnostic already
Preexisting == Diagnostic("Preexisting", Ptr("item", "derived", 0, 0), None, None)
CallerAccs == {<<>>, <<Preexisting>>}

(***************************************************************************)
(* Module::diagnostics                                                     *)
(***************************************************************************)
ModuleDef(kind, id) == [kind |-> kind, id |-> id]

\* The crate under diagnosis: for each module its origin, its declarations
\* (Module::declarations) and its impls (Module::impl_defs).
\*   mod inline { mod nested_file; fn h() {} }
\*   mod file;       (file.rs: mod file_inline { fn l() {} }  fn k() {}  impl J {..})
\*   trait T {..}  fn g() {}  enum E { V }  struct St;  macro mac  impl I {..}
ModuleData ==
    [root |->
        [origin |-> "CrateRoot",
         declarations |-> <<ModuleDef("Module", "inline"), ModuleDef("Module", "file"),
                            ModuleDef("Trait", "T"), ModuleDef("Function", "g"),
                            ModuleDef("Enum", "E"), ModuleDef("Struct", "St"),
                            ModuleDef("Macro", "mac")>>,
         impl_defs |-> <<"I">>],
     inline |->
        [origin |-> "Inline",
         declarations |-> <<ModuleDef("Module", "nested_file"), ModuleDef("Function", "h")>>,
         impl_defs |-> <<>>],
     file |->
        [origin |-> "File",
         declarations |-> <<ModuleDef("Module", "file_inline"), ModuleDef("Function", "k")>>,
         impl_defs |-> <<"J">>],
     nested_file |->
        [origin |-> "File",
         declarations |-> <<ModuleDef("Function", "n")>>,
         impl_defs |-> <<>>],
     file_inline |->
        [origin |-> "Inline",
         declarations |-> <<ModuleDef("Function", "l")>>,
         impl_defs |-> <<>>]]

\* the associated items of each trait and impl, and the variants of the enum
AssocItems ==
    [T |-> <<ModuleDef("Function", "T::f"), ModuleDef("Const", "T::C"),
             ModuleDef("TypeAlias", "T::A")>>,
     I |-> <<ModuleDef("Function", "I::m"), ModuleDef("TypeAlias", "I::A"),
             ModuleDef("Const", "I::c")>>,
     J |-> <<ModuleDef("Function", "J::m")>>,
     E |-> <<ModuleDef("Variant", "E::V")>>]

\* Everything that can have a finding of its own: the bodies, the items whose
\* name can have the wrong case, and the item trees of the traits and impls.
Owners ==
    {"g", "h", "k", "l", "n", "T::f", "T::C", "I::m", "I::c", "J::m", "E::V",
     "T", "E", "St", "data T", "data I", "data J"}

\* One call Module::diagnostics makes: the module it is made for, the owner
\* of what it reports, the log entry it converts (if it converts one), the
\* function called and the definition diagnostic handed to it (if any).
Step(module, owner, entry, call, diag) ==
    [module |-> module, owner |-> owner, entry |-> entry, call |-> call, diag |-> diag]

\* def.diagnostics(db, acc) of a body
body_step(body) == Step("", body, None, "DefWithBody::diagnostics", None)

\* ModuleDef::diagnostics
ModuleDef_diagnostics(def) ==
    CASE def.kind \in {"BuiltinType", "Macro"} -> <<>>
      [] def.kind \in {"Function", "Const", "Static", "Variant"} -> <<body_step(def.id)>>
      [] OTHER -> <<Step("", def.id, None, "incorrect_case", None)>>

\* db.trait_data_with_diagnostics(..).1 / db.impl_data_with_diagnostics(..).1,
\* each handed to emit_def_diagnostic
data_diagnostics(faulty, container) ==
    IF container \in faulty
        THEN <<Step("", container, None, "emit_def_diagnostic",
                    Some(DefDiag("UnconfiguredCode", "derived", NoCall, 0)))>>
        ELSE <<>>

\* a variant of the per-module stage without the ownership test
RECURSIVE def_map_diagnostics_unfiltered(_, _)
def_map_diagnostics_unfiltered(module, log) ==
    IF log = <<>> THEN <<>>
    ELSE <<Step(module, module, Some(Head(log)), "emit_def_diagnostic", Some(Head(log).diag))>>
         \o def_map_diagnostics_unfiltered(module, Tail(log))

\* the per-module stage: the entries of def_map.diagnostics() owned by the module
RECURSIVE def_map_diagnostics(_, _)
def_map_diagnostics(module, log) ==
    IF log = <<>> THEN <<>>
    ELSE (IF Head(log).in_module # module THEN <<>>    \* continue
          ELSE <<Step(module, module, Some(Head(log)), "emit_def_diagnostic",
                      Some(Head(log).diag))>>)
         \o def_map_diagnostics(module, Tail(log))

\* for item in impl_def.items(db): the functions and constants
impl_items(items) ==
    Flatten([i \in 1..Len(items) |->
                IF items[i].kind = "TypeAlias" THEN <<>>    \* continue
                ELSE <<body_step(items[i].id)>>])

\* for impl_def in self.impl_defs(db)
impl_defs(faulty, impls) ==
    Flatten([i \in 1..Len(impls) |->
                data_diagnostics(faulty, "data " \o impls[i])
                    \o impl_items(AssocItems[impls[i]])])

\* a variant that takes a file-backed module for an inline one
is_inline_or_file(module) == ModuleData[module].origin \in {"Inline", "File"}

\* def_map[m.id.local_id].origin.is_inline()
is_inline(module) == ModuleData[module].origin = "Inline"

\* the definitions whose diagnostics a declaration asks for: an enum's
\* variants before the enum, nothing for a module
diagnosed_defs(decl) ==
    CASE decl.kind = "Module" -> <<>>
      [] decl.kind = "Enum" -> AssocItems[decl.id] \o <<decl>>
      [] OTHER -> <<decl>>

\* The calls of Module::diagnostics, in the order the code makes them.
RECURSIVE Module_steps(_, _, _), declarations(_, _, _)
declarations(faulty, log, decls) ==
    IF decls = <<>> THEN <<>>
    ELSE LET decl == Head(decls)
             defs == diagnosed_defs(decl)
         IN  (IF decl.kind = "Module" /\ is_inline(decl.id)
                 \* Only add diagnostics from inline modules
                 THEN Module_steps(faulty, log, decl.id) ELSE <<>>)
             \o (IF decl.kind = "Trait"
                    THEN data_diagnostics(faulty, "data " \o decl.id) ELSE <<>>)
             \o Flatten([i \in 1..Len(defs) |-> ModuleDef_diagnostics(defs[i])])
             \o declarations(faulty, log, Tail(decls))

Module_steps(faulty, log, module) ==
    def_map_diagnostics(module, log)
        \o declarations(faulty, log, ModuleData[module].declarations)
        \o impl_defs(faulty, ModuleData[module].impl_defs)

\* What one call does.  The queries of a body with a finding hold one type
\* mismatch, so DefWithBody::diagnostics makes the one iteration of that loop,
\* and none for a body without a finding; an item with a finding has one
\* incorrect-case diagnostic.
step_out(faulty, s) ==
    CASE s.call = "DefWithBody::diagnostics" ->
            IF s.owner \in faulty
                THEN diagnostics_step(BodyDiag(4, "TypeMismatch", "other")) ELSE Skip
      [] s.call = "incorrect_case" ->
            IF s.owner \in faulty THEN incorrect_case([id |-> s.owner]) ELSE Skip
      [] OTHER -> emit_def_diagnostic(Unwrap(s.diag))

\* The calls run until one panics: acc holds, with its owner, each diagnostic
\* pushed before that, and converted the log entries handed to emit_def_diagnostic.
RECURSIVE run_steps(_, _, _, _)
run_steps(faulty, steps, pushed, converted) ==
    IF steps = <<>> THEN [acc |-> pushed, converted |-> converted, panicked |-> FALSE]
    ELSE LET s == Head(steps)
             out == step_out(faulty, s)
             seen == IF IsSome(s.entry)
                        THEN Append(converted, [module |-> s.module, entry |-> Unwrap(s.entry)])
                        ELSE converted
         IN  IF out.panic
                THEN [acc |-> pushed, converted |-> seen, panicked |-> TRUE]
                ELSE run_steps(faulty, Tail(steps),
                               pushed \o [i \in 1..Len(out.push) |->
                                             [owner |-> s.owner, diag |-> out.push[i]]],
                               seen)

\* Module::diagnostics
Module_diagnostics(faulty, log, module) ==
    run_steps(faulty, Module_steps(faulty, log, module), <<>>, <<>>)

(***************************************************************************)
(* Types (hir_ty::Ty) and the Type facade.                                 *)
(***************************************************************************)
\* A type tree, or a non-type generic argument (a lifetime or a const).
Ty(kind, id, args) == [kind |-> kind, id |-> id, args |-> args]
TyError == Ty("Error", "unknown", <<>>)
\* the bound variables ^0, ^1, ^2 of a canonical type
TyBoundVar(index) == Ty("BoundVar", <<"^0", "^1", "^2">>[index + 1], <<>>)
TyRef(m, ty) == Ty("Ref", m, <<ty>>)
TySlice(ty) == Ty("Slice", "slice", <<ty>>)
TyAdt(id, substs) == Ty("Adt", id, substs)

\* GenericArg::ty: the arguments that are types
ty_args(substs) == SelectSeq(substs, LAMBDA a : a.kind \notin {"Lifetime", "Const"})

i32 == Ty("Scalar", "i32", <<>>)
ParamT == Ty("Placeholder", "T", <<>>)
ParamU == Ty("Placeholder", "U", <<>>)

\* the types the operations are applied to
Tys ==
    {i32, TyError, ParamT, ParamU,
     TyRef("not", i32), TyRef("mut", ParamT), TyRef("not", TyRef("not", i32)),
     Ty("Raw", "const", <<i32>>), TySlice(i32), Ty("Array", "len", <<ParamT>>),
     Ty("Tuple", "tuple", <<i32, ParamT>>), Ty("Tuple", "tuple", <<>>),
     TyAdt("Vec", <<ParamT>>), TyRef("not", TyAdt("Vec", <<ParamT>>)),
     TyRef("not", TyRef("mut", ParamT)),
     TyAdt("Vec", <<TyError>>),
     TyAdt("S", <<Ty("Lifetime", "a", <<>>), i32>>), TyAdt("Un", <<>>), TyAdt("En", <<i32>>),
     TyAdt("Box", <<TyRef("not", i32)>>), TyAdt("Loop", <<>>),
     TyAdt("Pair", <<TyAdt("Vec", <<ParamT>>), TyAdt("En", <<i32>>)>>),
     Ty("FnDef", "f", <<ParamU>>), Ty("Function", "fn", <<i32, i32>>),
     Ty("Closure", "closure", <<i32>>),
     Ty("Dyn", "dyn Trait<i32>", <<>>), Ty("OpaqueType", "impl Trait<U>", <<ParamU>>),
     Ty("AliasOpaque", "impl Trait", <<i32>>),
     Ty("AssociatedType", "Iterator::Item", <<ParamT>>),
     Ty("AssociatedType", "orphan", <<i32>>)}

\* The kind of each ADT and field_types of its variant: a field type is a type,
\* or the ADT's generic parameter n, which substitute fills in.
Adts ==
    [Vec  |-> [kind |-> "Struct", field_types |-> <<>>],
     S    |-> [kind |-> "Struct", field_types |-> <<Ty("Param", "param", <<2>>), TyRef("not", i32)>>],
     Un   |-> [kind |-> "Union",  field_types |-> <<i32>>],
     En   |-> [kind |-> "Enum",   field_types |-> <<i32>>],
     Box  |-> [kind |-> "Struct", field_types |-> <<Ty("Param", "param", <<1>>)>>],
     Loop |-> [kind |-> "Struct", field_types |-> <<>>],
     Pair |-> [kind |-> "Struct",
               field_types |-> <<Ty("Param", "param", <<1>>), Ty("Param", "param", <<2>>)>>]]

\* Binders::substitute: the generic parameters replaced by the arguments
substitute(ty, substs) == IF ty.kind = "Param" THEN substs[ty.args[1]] ELSE ty

\* Arc<TraitEnvironment>: the handle of a shared environment
MaxEnvs == 2
Envs == 1..MaxEnvs
Type(env, ty) == [env |-> env, ty |-> ty]
Types == {Type(e, t) : e \in Envs, t \in Tys}

\* a variant that builds the environment anew (handle 0) instead of sharing it
derived_fresh_env(self, ty) == Type(0, ty)

\* Type::derived
derived(self, ty) == Type(self.env, ty)

\* iter.map(|ty| self.derived(ty))
derived_all(self, tys) == [i \in 1..Len(tys) |-> derived(self, tys[i])]

\* TyExt::strip_reference: one reference layer off
ty_strip_reference(ty) == IF ty.kind = "Ref" THEN ty.args[1] ELSE ty

\* TyExt::strip_references: every leading reference layer off
RECURSIVE ty_strip_references(_)
ty_strip_references(ty) == IF ty.kind = "Ref" THEN ty_strip_references(ty.args[1]) ELSE ty

(***************************************************************************)
(* Autoderef                                                               *)
(***************************************************************************)
\* hir_ty::replace_errors_with_variables: every error type becomes a bound
\* variable, numbered in the order met; [ty, n] is the result and the number
\* of variables used so far.
RECURSIVE replace_errors(_, _), replace_errors_args(_, _)
replace_errors(ty, n) ==
    IF ty.kind = "Error" THEN [ty |-> TyBoundVar(n), n |-> n + 1]
    ELSE IF ty.kind = "BoundVar" THEN [ty |-> ty, n |-> n]
    ELSE LET r == replace_errors_args(ty.args, n)
         IN  [ty |-> Ty(ty.kind, ty.id, r.args), n |-> r.n]
replace_errors_args(args, n) ==
    IF args = <<>> THEN [args |-> <<>>, n |-> n]
    ELSE LET h == replace_errors(Head(args), n)
             t == replace_errors_args(Tail(args), h.n)
         IN  [args |-> <<h.ty>> \o t.args, n |-> t.n]

replace_errors_with_variables(ty) == replace_errors(ty, 0).ty

\* one step of hir_ty::autoderef: a reference or raw pointer gives its
\* referent; an ADT gives what the solver finds as its Deref::Target (Box<X>
\* gives X, Loop is its own target); anything else does not dereference.
autoderef_step(ty) ==
    CASE ty.kind \in {"Ref", "Raw"} -> Some(ty.args[1])
      [] ty.kind = "Adt" /\ ty.id = "Box" -> Some(ty.args[1])
      [] ty.kind = "Adt" /\ ty.id = "Loop" -> Some(ty)
      [] OTHER -> None

AUTODEREF_RECURSION_LIMIT == 10

\* hir_ty::autoderef: the type, then each dereference of it, until a type does
\* not dereference or the limit of steps is reached
RECURSIVE hir_ty_autoderef(_, _)
hir_ty_autoderef(ty, steps) ==
    LET next == autoderef_step(ty)
    IN  IF steps >= AUTODEREF_RECURSION_LIMIT \/ IsNone(next) THEN <<ty>>
        ELSE <<ty>> \o hir_ty_autoderef(Unwrap(next), steps + 1)

\* Type::autoderef_
autoderef_(self) == hir_ty_autoderef(replace_errors_with_variables(self.ty), 0)

\* a variant that drops the starting type (iter.skip(1))
autoderef_skip_first(self) == derived_all(self, Tail(autoderef_(self)))

\* Type::autoderef
autoderef(self) == derived_all(self, autoderef_(self))

(***************************************************************************)
(* Trait predicates                                                        *)
(***************************************************************************)
\* Option<hir_ty::Solution>, the answer of the trait_solve query: no solution,
\* a unique one, or an ambiguous one
Solutions == {None, Some("Unique"), Some("Ambig")}

\* method_resolution::implements_trait: the solver has some solution
implements_trait(solution) == IsSome(solution)

\* method_resolution::implements_trait_unique: the solution is unique
implements_trait_unique(solution) == solution = Some("Unique")

\* the generic parameters a trait or an associated type has after Self
ParamKinds == {<<>>, <<"Type">>, <<"Const">>}

\* a variant that requires the unique solution
impls_trait_unique(self, params, args, solution) ==
    IF Len(params) > Len(args)
        THEN [panicked |-> TRUE, value |-> FALSE]
        ELSE [panicked |-> FALSE, value |-> solution = Some("Unique")]

\* Type::impls_trait.  TyBuilder::fill takes one argument (it.next().unwrap())
\* for every remaining parameter, whatever its kind.
impls_trait(self, params, args, solution) ==
    IF Len(params) > Len(args)
        THEN [panicked |-> TRUE, value |-> FALSE]
        ELSE [panicked |-> FALSE, value |-> IsSome(solution)]

\* Type::is_copy; lang_item is the "copy" lang item: absent, a trait, or an
\* item of another kind
is_copy(self, lang_item, solution) ==
    IF lang_item = Some("TraitId")
        THEN impls_trait(self, <<>>, <<>>, solution)
        ELSE [panicked |-> FALSE, value |-> FALSE]

\* a variant that accepts any solution
impls_fnonce_any_solution(self, fnonce_trait, solution) ==
    IF IsNone(fnonce_trait) THEN FALSE ELSE implements_trait(solution)

\* Type::impls_fnonce; fnonce_trait is FnTrait::FnOnce.get_id for the crate
impls_fnonce(self, fnonce_trait, solution) ==
    IF IsNone(fnonce_trait) THEN FALSE ELSE implements_trait_unique(solution)

\* TyBuilder::fill in normalize_trait_assoc_type: an argument is taken
\* (args.next().unwrap()) for a type parameter only
RECURSIVE normalize_fill_panics(_, _)
normalize_fill_panics(params, args) ==
    IF params = <<>> THEN FALSE
    ELSE IF Head(params) = "Type"
        THEN args = <<>> \/ normalize_fill_panics(Tail(params), Tail(args))
        ELSE normalize_fill_panics(Tail(params), args)

\* Type::normalize_trait_assoc_type; normalized is what normalize_projection
\* answers for the projection
normalize_trait_assoc_type(self, params, args, normalized) ==
    IF normalize_fill_panics(params, args)
        THEN [panicked |-> TRUE, value |-> None]
        ELSE [panicked |-> FALSE,
              value |-> IF normalized.kind = "Error" THEN None
                        ELSE Some(derived(self, normalized))]

(***************************************************************************)
(* Candidate iteration                                                     *)
(***************************************************************************)
AssocItemIds ==
    {[kind |-> "FunctionId", id |-> "f1"], [kind |-> "FunctionId", id |-> "f2"],
     [kind |-> "ConstId", id |-> "c1"]}

\* the caller's callback accepts the items in accept, answering Some of a
\* value made from the item, and answers None for the others
callback(accept, item) == IF item \in accept THEN Some(<<"v", item.id>>) ELSE None

\* the state of a scan: the slot, the items the caller's callback has been
\* invoked with, and whether the scan has returned
Scan(slot, called, stopped) == [slot |-> slot, called |-> called, stopped |-> stopped]

\* the closure iterate_assoc_items passes down
assoc_items_closure(accept, st, item) ==
    LET slot == callback(accept, item)
    IN  Scan(slot, Append(st.called, item), IsSome(slot))

\* a variant whose loop goes on after the callback has answered true
RECURSIVE for_items_no_return(_, _, _)
for_items_no_return(accept, st, items) ==
    IF items = <<>> THEN st
    ELSE for_items_no_return(accept, assoc_items_closure(accept, st, Head(items)),
                             Tail(items))

\* for &item in db.impl_data(*impl_def).items.iter()
RECURSIVE for_items(_, _, _)
for_items(accept, st, items) ==
    IF items = <<>> \/ st.stopped THEN st
    ELSE for_items(accept, assoc_items_closure(accept, st, Head(items)), Tail(items))

\* for impl_def in impls.for_self_ty(&self.ty)
RECURSIVE for_impls(_, _, _)
for_impls(accept, st, impls) ==
    IF impls = <<>> \/ st.stopped THEN st
    ELSE for_impls(accept, for_items(accept, st, Head(impls)), Tail(impls))

\* for krate in def_crates
RECURSIVE for_crates(_, _, _)
for_crates(accept, st, crates) ==
    IF crates = <<>> \/ st.stopped THEN st
    ELSE for_crates(accept, for_impls(accept, st, Head(crates)), Tail(crates))

\* Type::iterate_assoc_items and iterate_assoc_items_dyn; def_crates is the
\* answer of method_resolution::def_crates, each crate given by its inherent
\* impls for the type, each impl by its items
iterate_assoc_items(self, def_crates, accept) ==
    LET st == IF IsNone(def_crates) THEN Scan(None, <<>>, FALSE)
              ELSE for_crates(accept, Scan(None, <<>>, FALSE), Unwrap(def_crates))
    IN  [value |-> st.slot, called |-> st.called]

\* a variant that answers ControlFlow::Continue after an acceptance too
method_candidates_closure_no_break(accept, st, item) ==
    IF item.kind = "FunctionId"
        THEN LET res == callback(accept, item)
             IN  Scan(IF IsSome(res) THEN res ELSE st.slot, Append(st.called, item), FALSE)
        ELSE Scan(st.slot, st.called, FALSE)

\* the closure iterate_method_candidates passes down: only a function reaches
\* the caller's callback; stopped is ControlFlow::Break
method_candidates_closure(accept, st, item) ==
    IF item.kind = "FunctionId"
        THEN LET res == callback(accept, item)
             IN  IF IsSome(res) THEN Scan(res, Append(st.called, item), TRUE)
                 ELSE Scan(st.slot, Append(st.called, item), FALSE)
        ELSE Scan(st.slot, st.called, FALSE)

\* the closure iterate_path_candidates passes down
path_candidates_closure(accept, st, item) ==
    LET res == callback(accept, item)
    IN  IF IsSome(res) THEN Scan(res, Append(st.called, item), TRUE)
        ELSE Scan(st.slot, Append(st.called, item), FALSE)

\* the associated items in the order their impls list them
ItemOrder ==
    <<[kind |-> "FunctionId", id |-> "f1"], [kind |-> "FunctionId", id |-> "f2"],
      [kind |-> "ConstId", id |-> "c1"]>>

\* What the receiver type has of each item: nothing, or the item in an
\* inherent impl, or in the impl of a trait in scope.
MethodTables == [{"f1", "f2", "c1"} -> {"absent", "inherent", "trait"}]

\* the items the receiver type has from impls of one origin
candidates_of(methods, origin) ==
    SelectSeq(ItemOrder, LAMBDA item : methods[item.id] = origin)

\* the order in which method resolution meets the candidates: those of the
\* inherent impls first, then those of the trait impls
method_call_candidates(methods) ==
    candidates_of(methods, "inherent") \o candidates_of(methods, "trait")

\* method_resolution::iterate_method_candidates_dyn: the candidates are handed
\* to the closure in order until it breaks
RECURSIVE iterate_method_candidates_dyn(_, _, _)
iterate_method_candidates_dyn(accept, st, candidates) ==
    IF candidates = <<>> \/ st.stopped THEN st
    ELSE iterate_method_candidates_dyn(
            accept, method_candidates_closure(accept, st, Head(candidates)), Tail(candidates))

\* method_resolution::iterate_path_candidates, likewise
RECURSIVE iterate_path_candidates_dyn(_, _, _)
iterate_path_candidates_dyn(accept, st, candidates) ==
    IF candidates = <<>> \/ st.stopped THEN st
    ELSE iterate_path_candidates_dyn(
            accept, path_candidates_closure(accept, st, Head(candidates)), Tail(candidates))

\* Type::iterate_method_candidates
iterate_method_candidates(self, candidates, accept) ==
    LET st == iterate_method_candidates_dyn(accept, Scan(None, <<>>, FALSE), candidates)
    IN  [value |-> st.slot, called |-> st.called]

\* Type::iterate_path_candidates
iterate_path_candidates(self, candidates, accept) ==
    LET st == iterate_path_candidates_dyn(accept, Scan(None, <<>>, FALSE), candidates)
    IN  [value |-> st.slot, called |-> st.called]

(***************************************************************************)
(* Type::walk                                                              *)
(***************************************************************************)
\* a where clause T: Trait<..>; its substitution starts with the self type
Implemented(substitution) == [kind |-> "Implemented", substitution |-> substitution]

\* TyExt::impl_trait_bounds: the bounds of an impl Trait type, or of the type
\* parameter that stands for an argument's impl Trait.  T is the parameter of
\* an argument `impl Trait<U> + 'a`; U is a named parameter and has none.
impl_trait_bounds(ty) ==
    CASE ty.kind = "Placeholder" /\ ty.id = "T" ->
            Some(<<Implemented(<<ty, ParamU>>), [kind |-> "AliasEq", substitution |-> <<>>]>>)
      [] ty.kind \in {"OpaqueType", "AliasOpaque"} ->
            Some(<<Implemented(<<ty, Ty("Lifetime", "a", <<>>), TyAdt("Vec", <<ParamT>>)>>)>>)
      [] OTHER -> None

\* the bounds held in a dyn Trait type
dyn_bounds(ty) == <<Implemented(<<ty, i32>>), Implemented(<<ty>>)>>

\* TyExt::associated_type_parent_trait
associated_type_parent_trait(ty) ==
    IF ty.kind = "AssociatedType" /\ ty.id = "Iterator::Item" THEN Some("Iterator") ELSE None

\* the types handed to cb, in order
RECURSIVE walk_type(_), walk_bounds(_, _), walk_substs(_, _)
\* a variant that walks the arguments from the last to the first
walk_substs_right_to_left(type_, substs) ==
    LET tys == ty_args(substs)
    IN  IF tys = <<>> THEN <<>>
        ELSE walk_substs(type_, Tail(tys)) \o walk_type(derived(type_, Head(tys)))

\* a variant that hands the bounded type to cb after the bound's arguments
walk_bounds_type_last(type_, bounds) ==
    IF bounds = <<>> THEN <<>>
    ELSE LET pred == Head(bounds)
         IN  (IF pred.kind = "Implemented"
                THEN walk_substs(type_, Tail(pred.substitution)) \o <<type_>>
                ELSE <<>>)
             \o walk_bounds(type_, Tail(bounds))

\* a variant that looks at the type as it is, and hands a reference to cb
\* before walking what it refers to
walk_type_references_too(type_) ==
    LET ty == type_.ty
        bounds == impl_trait_bounds(ty)
    IN  CASE ty.kind = "Adt" ->
                <<derived(type_, ty)>> \o walk_substs(type_, ty.args)
          [] ty.kind = "AssociatedType" ->
                (IF IsSome(associated_type_parent_trait(ty))
                    THEN <<derived(type_, ty)>> ELSE <<>>)
                \o walk_substs(type_, ty.args)
          [] ty.kind \in {"OpaqueType", "AliasOpaque"} ->
                (IF IsSome(bounds)
                    THEN walk_bounds(derived(type_, ty), Unwrap(bounds)) ELSE <<>>)
                \o walk_substs(type_, ty.args)
          [] ty.kind = "Placeholder" ->
                IF IsSome(bounds)
                    THEN walk_bounds(derived(type_, ty), Unwrap(bounds)) ELSE <<>>
          [] ty.kind = "Dyn" -> walk_bounds(derived(type_, ty), dyn_bounds(ty))
          [] ty.kind = "Ref" ->
                <<type_>> \o walk_type(derived(type_, ty.args[1]))
          [] ty.kind \in {"Raw", "Array", "Slice"} ->
                walk_type(derived(type_, ty.args[1]))
          [] ty.kind \in {"FnDef", "Tuple", "Closure", "Function"} ->
                walk_substs(type_, ty.args)
          [] OTHER -> <<>>

walk_substs(type_, substs) ==
    LET tys == ty_args(substs)
    IN  IF tys = <<>> THEN <<>>
        ELSE walk_type(derived(type_, Head(tys))) \o walk_substs(type_, Tail(tys))

walk_bounds(type_, bounds) ==
    IF bounds = <<>> THEN <<>>
    ELSE LET pred == Head(bounds)
         IN  (IF pred.kind = "Implemented"
                THEN <<type_>> \o walk_substs(type_, Tail(pred.substitution))
                ELSE <<>>)
             \o walk_bounds(type_, Tail(bounds))

walk_type(type_) ==
    LET ty == ty_strip_references(type_.ty)
        bounds == impl_trait_bounds(ty)
    IN  CASE ty.kind = "Adt" ->
                <<derived(type_, ty)>> \o walk_substs(type_, ty.args)
          [] ty.kind = "AssociatedType" ->
                (IF IsSome(associated_type_parent_trait(ty))
                    THEN <<derived(type_, ty)>> ELSE <<>>)
                \o walk_substs(type_, ty.args)
          [] ty.kind \in {"OpaqueType", "AliasOpaque"} ->
                (IF IsSome(bounds)
                    THEN walk_bounds(derived(type_, ty), Unwrap(bounds)) ELSE <<>>)
                \o walk_substs(type_, ty.args)
          [] ty.kind = "Placeholder" ->
                IF IsSome(bounds)
                    THEN walk_bounds(derived(type_, ty), Unwrap(bounds)) ELSE <<>>
          [] ty.kind = "Dyn" -> walk_bounds(derived(type_, ty), dyn_bounds(ty))
          [] ty.kind \in {"Ref", "Raw", "Array", "Slice"} ->
                walk_type(derived(type_, ty.args[1]))
          [] ty.kind \in {"FnDef", "Tuple", "Closure", "Function"} ->
                walk_substs(type_, ty.args)
          [] OTHER -> <<>>

(***************************************************************************)
(* Callable                                                                *)
(***************************************************************************)
\* TyExt::callable_sig: the parameter types and the return type
callable_sig(ty) ==
    CASE ty.kind = "FnDef" ->
            Some([params |-> <<TyRef("not", ParamU), i32>>, return |-> ParamU])
      [] ty.kind = "Function" ->
            Some([params |-> SubSeq(ty.args, 1, Len(ty.args) - 1),
                  return |-> ty.args[Len(ty.args)]])
      [] ty.kind = "Closure" -> Some([params |-> <<>>, return |-> i32])
      [] OTHER -> None

Callable(ty, sig, callee, is_bound_method) ==
    [ty |-> ty, sig |-> sig, callee |-> callee, is_bound_method |-> is_bound_method]

\* Type::as_callable
as_callable(self) ==
    LET sig == callable_sig(self.ty)
        callee == CASE self.ty.kind = "Closure" -> "Closure"
                    [] self.ty.kind = "Function" -> "FnPtr"
                    [] OTHER -> "Def"
    IN  IF IsNone(sig) THEN None
        ELSE Some(Callable(self, Unwrap(sig), callee, FALSE))

\* the patterns of Callable::params: the self parameter unless the method is
\* bound, then the pattern of each parameter
patterns(callable, param_list) ==
    IF callable.callee \in {"Def", "Closure"} /\ IsSome(param_list)
        THEN LET pl == Unwrap(param_list)
             IN  (IF IsSome(pl.self_param) /\ ~callable.is_bound_method
                    THEN <<Some(<<"Left", Unwrap(pl.self_param)>>)>> ELSE <<>>)
                 \o [i \in 1..Len(pl.params) |->
                        IF IsSome(pl.params[i])
                            THEN Some(<<"Right", Unwrap(pl.params[i])>>) ELSE None]
        ELSE <<>>

\* a - b on usize.  An underflow panics in a build with overflow checks and
\* wraps otherwise; the wrapped value a - b + 2^64 is written as the negative
\* number it is congruent to.
usize_sub(a, b, overflow_checks) ==
    IF a >= b THEN [panic |-> FALSE, value |-> a - b]
    ELSE IF overflow_checks THEN [panic |-> TRUE, value |-> 0]
    ELSE [panic |-> FALSE, value |-> a - b]

\* Callable::n_params
n_params(callable, overflow_checks) ==
    usize_sub(Len(callable.sig.params), IF callable.is_bound_method THEN 1 ELSE 0,
              overflow_checks)

\* Callable::params
Callable_params(callable, param_list) ==
    LET skip == IF callable.is_bound_method THEN 1 ELSE 0
        sig_params == callable.sig.params
        types == [i \in 1..(IF Len(sig_params) > skip THEN Len(sig_params) - skip ELSE 0) |->
                    derived(callable.ty, sig_params[i + skip])]
        pats == patterns(callable, param_list)
    IN  [i \in 1..Len(types) |->
            <<IF i <= Len(pats) THEN pats[i] ELSE None, types[i]>>]

\* Nothing is in progress: the caller holds no result of a previous call.
Init ==
    /\ op = "idle"
    /\ arg = <<>>
    /\ ret = <<>>
    /\ calls = <<>>
    /\ acc = <<>>
    /\ panicked = FALSE
    /\ envs_built = 0

\* The caller drops the result of the last call; the calls are synchronous and
\* one at a time, so the next one starts from here.
Return ==
    /\ op # "idle"
    /\ op' = "idle"
    /\ arg' = <<>>
    /\ ret' = <<>>
    /\ calls' = <<>>
    /\ acc' = <<>>
    /\ panicked' = FALSE
    /\ envs_built' = 0

ModuleScope ==
    /\ op = "idle"
    /\ \E tree \in ModuleTrees, entries \in ItemScopes, visible_from \in Option(Modules) :
        /\ op' = "Module::scope"
        /\ arg' = [tree |-> tree, entries |-> entries, visible_from |-> visible_from]
        /\ ret' = Module_scope(tree, entries, visible_from)
        /\ UNCHANGED <<calls, acc, panicked, envs_built>>

DefWithBodyDiagnostics ==
    /\ op = "idle"
    /\ \E n \in 0..MaxDiags, acc0 \in CallerAccs : \E recorded \in Recordings(n) :
        LET out == DefWithBody_diagnostics(recorded, acc0)
        IN  /\ op' = "DefWithBody::diagnostics"
            /\ arg' = [recorded |-> recorded, acc0 |-> acc0]
            /\ ret' = <<>>
            /\ acc' = out.acc
            /\ panicked' = out.panicked
            /\ UNCHANGED <<calls, envs_built>>

Next == DefWithBodyDiagnostics \/ Return

Spec == Init /\ [][Next]_vars

\* The entities that have a visibility: the kind, and the visibility the
\* entity's data resolves to (for a variant, that of its enum).
VisibleItems ==
    {[kind |-> k, vis |-> v] :
        k \in {"Module", "Function", "Struct", "Variant", "Macro2", "MacroRules", "ProcMacro"},
        v \in Visibilities}

\* HasVisibility::visibility
visibility(item) ==
    IF item.kind \in {"MacroRules", "ProcMacro"} THEN VisPublic ELSE item.vis

\* HasVisibility::is_visible_from
HasVisibility_is_visible_from(tree, item, module) ==
    is_visible_from(tree, visibility(item), module)

IsVisibleFrom ==
    /\ op = "idle"
    /\ \E tree \in ModuleTrees, item \in VisibleItems, module \in Modules :
        /\ op' = "HasVisibility::is_visible_from"
        /\ arg' = [tree |-> tree, item |-> item, module |-> module]
        /\ ret' = HasVisibility_is_visible_from(tree, item, module)
        /\ UNCHANGED <<calls, acc, panicked, envs_built>>

\* Def maps with deeper nesting, for the walk to the root: a module's parent
\* was allocated before it.
MaxChain == 4
ChainModules == 0..(MaxChain - 1)
ChainTrees ==
    {t \in [ChainModules -> Option(ChainModules)] :
        /\ t[Root] = None
        /\ \A m \in ChainModules \ {Root} : IsSome(t[m]) /\ Unwrap(t[m]) < m}

PathToRoot ==
    /\ op = "idle"
    /\ \E tree \in ChainTrees, self \in ChainModules :
        /\ op' = "Module::path_to_root"
        /\ arg' = [tree |-> tree, self |-> self]
        /\ ret' = path_to_root(tree, self)
        /\ UNCHANGED <<calls, acc, panicked, envs_built>>

NextScope == ModuleScope \/ IsVisibleFrom \/ PathToRoot \/ Return

SpecScope == Init /\ [][NextScope]_vars

\* the findings of the crate: at most MaxFindings owners have one
MaxFindings == 2
RECURSIVE owners_up_to(_)
owners_up_to(n) ==
    IF n = 0 THEN {{}}
    ELSE LET fewer == owners_up_to(n - 1)
         IN  fewer \cup {f \cup {o} : f \in fewer, o \in Owners}
Findings == owners_up_to(MaxFindings)

\* def_map.diagnostics(): the name-resolution log of the crate, each entry
\* owned by a module; the second kind of entry makes emit_def_diagnostic panic
MaxLog == 2
LogEntries ==
    {[in_module |-> m, diag |-> d] :
        m \in {"root", "inline", "file"},
        d \in {DefDiag("UnresolvedImport", "derived", NoCall, 0),
               DefDiag("UnimplementedBuiltinMacro", "no_args", NoCall, 0)}}

ModuleDiagnostics ==
    /\ op = "idle"
    /\ \E module \in DOMAIN ModuleData, faulty \in Findings, n \in 0..MaxLog :
        \E log \in [1..n -> LogEntries] :
            LET out == Module_diagnostics(faulty, log, module)
            IN  /\ op' = "Module::diagnostics"
                /\ arg' = [module |-> module, faulty |-> faulty, log |-> log]
                /\ ret' = <<>>
                /\ calls' = out.converted
                /\ acc' = out.acc
                /\ panicked' = out.panicked
                /\ envs_built' = 0

\* the log of a crate with entries in any of its modules
CrateLogEntries ==
    {[in_module |-> m, diag |-> d] :
        m \in DOMAIN ModuleData,
        d \in {DefDiag("UnresolvedImport", "derived", NoCall, 0),
               DefDiag("UnimplementedBuiltinMacro", "no_args", NoCall, 0)}}

\* the modules that have a file of their own, the crate root first
FileModules ==
    SelectSeq(<<"root", "inline", "file", "nested_file", "file_inline">>,
              LAMBDA m : ~is_inline(m))

\* the calls of Module::diagnostics on each module of the list in turn
RECURSIVE steps_of_each(_, _)
steps_of_each(log, modules) ==
    IF modules = <<>> THEN <<>>
    ELSE Module_steps({}, log, Head(modules)) \o steps_of_each(log, Tail(modules))

Diagnosed(a, out) ==
    /\ op' = "Module::diagnostics of each file"
    /\ arg' = a
    /\ ret' = <<>>
    /\ calls' = out.converted
    /\ acc' = out.acc
    /\ panicked' = out.panicked
    /\ envs_built' = 0

\* A caller asks every file's module for its diagnostics, one after the other,
\* into one accumulator; a panic in a call unwinds through the caller.
FileDiagnostics ==
    /\ op = "idle"
    /\ \E n \in 0..MaxLog : \E log \in [1..n -> CrateLogEntries] :
        Diagnosed([log |-> log], run_steps({}, steps_of_each(log, FileModules), <<>>, <<>>))

NextModule == ModuleDiagnostics \/ FileDiagnostics \/ Return

SpecModule == Init /\ [][NextModule]_vars

(***************************************************************************)
(* Calls into an accumulator the caller already uses, under a database     *)
(* that may be cancelled while the call runs.                              *)
(***************************************************************************)
\* A sample of what the queries can record for a body: on a mapped node, on
\* a synthetic one, and a def-map entry whose conversion panics.
SampleDiags ==
    {d \in RecordedDiags :
        IF d.stage = 1
            THEN d.kind \in {"UnresolvedImport", "UnimplementedBuiltinMacro"}
                    /\ d.ast \in {"derived", "no_args"}
            ELSE d.id \in {"other", "synthetic"}}

SampleRecordings(n) ==
    {r \in [1..n -> SampleDiags] : \A i \in 1..(n - 1) : r[i].stage <= r[i + 1].stage}

\* the iterations (or calls) made before the cancelled query, all of them
\* when no query is cancelled
before_cancel(todo, cancel) ==
    IF IsNone(cancel) THEN todo ELSE SubSeq(todo, 1, Unwrap(cancel))

\* the loops of DefWithBody::diagnostics up to the cancelled query
loops_before_cancel(recorded, acc0, cancel) ==
    run_loops(before_cancel(recorded, cancel), acc0)

\* The call made the iterations out reports and then a query was cancelled
\* (or none was, and it made them all).  The Cancelled unwinding is not
\* caught: it leaves the call as a panic does.  reached: nothing panicked
\* before the query.
uncaught(out, cancel) ==
    [reached |-> ~out.panicked] @@ [out EXCEPT !.panicked = @ \/ IsSome(cancel)]

\* a variant that catches the unwinding of a cancelled query and returns
\* what it has
DefWithBody_diagnostics_catching(recorded, acc0, cancel) ==
    [reached |-> TRUE] @@ loops_before_cancel(recorded, acc0, cancel)

\* DefWithBody::diagnostics when a query may be cancelled: cancel is None, or
\* the number of loop iterations made before the query that is cancelled
DefWithBody_diagnostics_into(recorded, acc0, cancel) ==
    uncaught(loops_before_cancel(recorded, acc0, cancel), cancel)

\* Module::diagnostics likewise: cancel is None, or the number of calls made
\* before the query that is cancelled
Module_diagnostics_into(faulty, steps, acc0, cancel) ==
    uncaught(run_steps(faulty, before_cancel(steps, cancel), acc0, <<>>), cancel)

\* where a call of n iterations can be cancelled
CancelPoints(n) == {None} \cup {Some(k) : k \in 0..n}

\* The call name(a) ends as out says; a cancellation happens in a query the
\* call gets to.
Into(name, a, out, called) ==
    /\ IsSome(a.cancel) => out.reached
    /\ op' = name
    /\ arg' = a
    /\ ret' = <<>>
    /\ calls' = called
    /\ acc' = out.acc
    /\ panicked' = out.panicked
    /\ envs_built' = 0

DefWithBodyDiagnosticsInto ==
    /\ op = "idle"
    /\ \E n \in 0..MaxDiags, acc0 \in CallerAccs :
        \E recorded \in SampleRecordings(n), cancel \in CancelPoints(n) :
            Into("DefWithBody::diagnostics",
                 [recorded |-> recorded, acc0 |-> acc0, cancel |-> cancel],
                 DefWithBody_diagnostics_into(recorded, acc0, cancel), <<>>)

\* the accumulator of a caller of Module::diagnostics: new, or in use
ModuleCallerAccs == {<<>>, <<[owner |-> "caller", diag |-> Preexisting]>>}

\* the call on the module whose calls are steps
ModuleInto(a, steps) ==
    \E cancel \in CancelPoints(Len(steps)) :
        Into("Module::diagnostics", [cancel |-> cancel, steps |-> steps] @@ a,
             Module_diagnostics_into(a.faulty, steps, a.acc0, cancel), <<>>)

\* One owner at most has a finding.
ModuleDiagnosticsInto ==
    /\ op = "idle"
    /\ \E module \in DOMAIN ModuleData, faulty \in {{}} \cup {{o} : o \in Owners},
          n \in 0..MaxLog, acc0 \in ModuleCallerAccs :
        \E log \in [1..n -> LogEntries] :
            ModuleInto([module |-> module, faulty |-> faulty, log |-> log, acc0 |-> acc0],
                       Module_steps(faulty, log, module))

NextInto == DefWithBodyDiagnosticsInto \/ ModuleDiagnosticsInto \/ Return

SpecInto == Init /\ [][NextInto]_vars

(***************************************************************************)
(* The Type facade: one call at a time on a Type the caller holds.         *)
(***************************************************************************)
\* The call name(a) returns r, or unwinds when p; called is what it invoked
\* the caller's callback with, built the environments it built or queried.
Call(name, a, r, called, p, built) ==
    /\ op' = name
    /\ arg' = a
    /\ ret' = r
    /\ calls' = called
    /\ panicked' = p
    /\ envs_built' = built
    /\ UNCHANGED acc

\* Type::new, new_with_resolver_inner, new_for_crate: the environment is built
\* (TraitEnvironment::empty) or queried (trait_environment) for the new Type
Type_new ==
    /\ op = "idle"
    /\ \E env \in Envs, ty \in Tys :
        Call("Type::new", [ty |-> ty], Type(env, ty), <<>>, FALSE, 1)

Type_as_reference ==
    /\ op = "idle"
    /\ \E self \in Types :
        Call("Type::as_reference", [self |-> self],
             IF self.ty.kind = "Ref"
                THEN Some([ty |-> derived(self, self.ty.args[1]), m |-> self.ty.id])
                ELSE None,
             <<>>, FALSE, 0)

Type_remove_ref ==
    /\ op = "idle"
    /\ \E self \in Types :
        Call("Type::remove_ref", [self |-> self],
             IF self.ty.kind = "Ref" THEN Some(derived(self, self.ty.args[1])) ELSE None,
             <<>>, FALSE, 0)

Type_strip_references ==
    /\ op = "idle"
    /\ \E self \in Types :
        Call("Type::strip_references", [self |-> self],
             derived(self, ty_strip_references(self.ty)), <<>>, FALSE, 0)

Type_strip_reference ==
    /\ op = "idle"
    /\ \E self \in Types :
        Call("Type::strip_reference", [self |-> self],
             derived(self, ty_strip_reference(self.ty)), <<>>, FALSE, 0)

Type_reference ==
    /\ op = "idle"
    /\ \E inner \in Types, m \in {"not", "mut"} :
        Call("Type::reference", [self |-> inner, m |-> m],
             derived(inner, TyRef(m, inner.ty)), <<>>, FALSE, 0)

Type_new_slice ==
    /\ op = "idle"
    /\ \E ty \in Types :
        Call("Type::new_slice", [self |-> ty], Type(ty.env, TySlice(ty.ty)), <<>>, FALSE, 0)

Type_fields ==
    /\ op = "idle"
    /\ \E self \in Types :
        Call("Type::fields", [self |-> self],
             IF self.ty.kind = "Adt" /\ Adts[self.ty.id].kind \in {"Struct", "Union"}
                THEN LET fts == Adts[self.ty.id].field_types
                     IN  [i \in 1..Len(fts) |->
                            [field |-> i,
                             ty |-> derived(self, substitute(fts[i], self.ty.args))]]
                ELSE <<>>,
             <<>>, FALSE, 0)

Type_tuple_fields ==
    /\ op = "idle"
    /\ \E self \in Types :
        Call("Type::tuple_fields", [self |-> self],
             IF self.ty.kind = "Tuple" THEN derived_all(self, self.ty.args) ELSE <<>>,
             <<>>, FALSE, 0)

Type_type_arguments ==
    /\ op = "idle"
    /\ \E self \in Types :
        Call("Type::type_arguments", [self |-> self],
             LET ty == ty_strip_references(self.ty)
             IN  IF ty.kind = "Adt" THEN derived_all(self, ty_args(ty.args)) ELSE <<>>,
             <<>>, FALSE, 0)

Type_autoderef ==
    /\ op = "idle"
    /\ \E self \in Types :
        Call("Type::autoderef", [self |-> self], autoderef(self), <<>>, FALSE, 0)

\* Type::walk: cb is handed the types walk_type emits
Type_walk ==
    /\ op = "idle"
    /\ \E self \in Types :
        Call("Type::walk", [self |-> self], <<>>, walk_type(self), FALSE, 0)

\* the arguments a caller passes for the parameters after Self
ArgLists == {<<>>} \cup {<<Type(e, t)>> : e \in Envs, t \in {i32, ParamT}}

Type_normalize_trait_assoc_type ==
    /\ op = "idle"
    /\ \E self \in Types, params \in ParamKinds, args \in ArgLists,
          normalized \in {TyError, i32, TyRef("not", ParamT)} :
        LET out == normalize_trait_assoc_type(self, params, args, normalized)
        IN  Call("Type::normalize_trait_assoc_type",
                 [self |-> self, params |-> params, args |-> args,
                  normalized |-> normalized],
                 out.value, <<>>, out.panicked, 0)

\* a Callable comes from as_callable, or from a resolved method call, which
\* binds the receiver
Callables ==
    {Callable(Unwrap(as_callable(self)).ty, Unwrap(as_callable(self)).sig,
              Unwrap(as_callable(self)).callee, b) :
        self \in {t \in Types : IsSome(as_callable(t))}, b \in BOOLEAN}

\* param_list is the parameter list in the source of the callee, when found
Callable_params_call ==
    /\ op = "idle"
    /\ \E callable \in Callables,
          param_list \in {None, Some([self_param |-> Some("self"), params |-> <<Some("pat")>>]),
                          Some([self_param |-> None, params |-> <<Some("pat"), None>>])} :
        Call("Callable::params",
             [self |-> callable.ty, callable |-> callable, param_list |-> param_list],
             Callable_params(callable, param_list), <<>>, FALSE, 0)

NParams(a, out) == Call("Callable::n_params", a, out.value, <<>>, out.panic, 0)

\* the build decides what an underflow does
Callable_n_params ==
    /\ op = "idle"
    /\ \E callable \in Callables, overflow_checks \in BOOLEAN :
        NParams([self |-> callable.ty, callable |-> callable,
                 overflow_checks |-> overflow_checks],
                n_params(callable, overflow_checks))

Callable_return_type ==
    /\ op = "idle"
    /\ \E callable \in Callables :
        Call("Callable::return_type", [self |-> callable.ty, callable |-> callable],
             derived(callable.ty, callable.sig.return), <<>>, FALSE, 0)

Type_impls_trait ==
    /\ op = "idle"
    /\ \E self \in Types, params \in ParamKinds, args \in ArgLists, solution \in Solutions :
        LET out == impls_trait(self, params, args, solution)
        IN  Call("Type::impls_trait",
                 [self |-> self, params |-> params, args |-> args, solution |-> solution],
                 out.value, <<>>, out.panicked, 0)

Type_is_copy ==
    /\ op = "idle"
    /\ \E self \in Types, lang_item \in {None, Some("TraitId"), Some("StructId")},
          solution \in Solutions :
        LET out == is_copy(self, lang_item, solution)
        IN  Call("Type::is_copy",
                 [self |-> self, lang_item |-> lang_item, solution |-> solution],
                 out.value, <<>>, out.panicked, 0)

Type_impls_fnonce ==
    /\ op = "idle"
    /\ \E self \in Types, fnonce_trait \in {None, Some("FnOnce")}, solution \in Solutions :
        Call("Type::impls_fnonce",
             [self |-> self, fnonce_trait |-> fnonce_trait, solution |-> solution],
             impls_fnonce(self, fnonce_trait, solution), <<>>, FALSE, 0)

\* the receivers of the scans, one with an unknown in it
Receivers == {Type(e, t) : e \in Envs, t \in {i32, TyAdt("Vec", <<TyError>>)}}

MaxCandidates == 3
\* the candidates of a scan, in the order the scan meets them
CandidateLists == UNION {[1..n -> AssocItemIds] : n \in 0..MaxCandidates}

\* The candidates c are the items of the inherent impls of two crates: one impl
\* in the first crate, two in the second.
Type_iterate_assoc_items ==
    /\ op = "idle"
    /\ \E self \in Receivers, c \in CandidateLists, accept \in SUBSET AssocItemIds,
          found \in BOOLEAN :
        \E i \in 0..Len(c) : \E j \in i..Len(c) :
            LET def_crates ==
                    IF found
                        THEN Some(<<<<SubSeq(c, 1, i)>>,
                                    <<SubSeq(c, i + 1, j), SubSeq(c, j + 1, Len(c))>>>>)
                        ELSE None
                out == iterate_assoc_items(self, def_crates, accept)
            IN  Call("Type::iterate_assoc_items",
                     [self |-> self, candidates |-> IF found THEN c ELSE <<>>,
                      def_crates |-> def_crates, accept |-> accept],
                     out.value, out.called, FALSE, 0)

\* iterate_method_candidates_dyn makes the environment the solver runs in
Type_iterate_method_candidates ==
    /\ op = "idle"
    /\ \E self \in Receivers, methods \in MethodTables, accept \in SUBSET AssocItemIds :
        LET c == method_call_candidates(methods)
            out == iterate_method_candidates(self, c, accept)
        IN  Call("Type::iterate_method_candidates",
                 [self |-> self, methods |-> methods, candidates |-> c, accept |-> accept],
                 out.value, out.called, FALSE, 1)

\* iterate_path_candidates_dyn makes the environment the solver runs in
Type_iterate_path_candidates ==
    /\ op = "idle"
    /\ \E self \in Receivers, c \in CandidateLists, accept \in SUBSET AssocItemIds :
        LET out == iterate_path_candidates(self, c, accept)
        IN  Call("Type::iterate_path_candidates",
                 [self |-> self, candidates |-> c, accept |-> accept],
                 out.value, out.called, FALSE, 1)

NextType ==
    \/ Type_new \/ Type_as_reference \/ Type_remove_ref \/ Type_strip_references
    \/ Type_strip_reference \/ Type_reference \/ Type_new_slice \/ Type_fields
    \/ Type_tuple_fields \/ Type_type_arguments \/ Type_autoderef \/ Type_walk
    \/ Type_normalize_trait_assoc_type \/ Callable_params_call \/ Callable_n_params \/ Callable_return_type
    \/ Type_impls_trait \/ Type_is_copy \/ Type_impls_fnonce
    \/ Type_iterate_assoc_items \/ Type_iterate_method_candidates
    \/ Type_iterate_path_candidates
    \/ Return

SpecType == Init /\ [][NextType]_vars

(***************************************************************************)
(* Locals: the bindings of a body, and the or-pattern groups among them.   *)
(***************************************************************************)
\* the identifier patterns of a body, numbered in the order lowering allocates them
MaxPats == 3
LocalPats == 0..(MaxPats - 1)

DefWithBodyIds == {"fn f", "const C"}

\* For each identifier pattern the name it binds as an alternative of an
\* or-pattern, or "none" for a pattern outside any or-pattern.
Groupings == [LocalPats -> {"none", "x", "y"}]

RECURSIVE ascending(_)
ascending(pats) ==
    IF pats = {} THEN <<>>
    ELSE LET first == CHOOSE p \in pats : \A q \in pats : p <= q
         IN  <<first>> \o ascending(pats \ {first})

\* Body::or_pats as lowering fills it: every pattern that binds a name in an
\* or-pattern is keyed to the list of all the patterns binding that name
or_pats(grouping) ==
    [p \in {q \in LocalPats : grouping[q] # "none"} |->
        ascending({q \in LocalPats : grouping[q] = grouping[p]})]

\* Body::ident_patterns_for
ident_patterns_for(body, pat) == IF pat \in DOMAIN body THEN body[pat] ELSE <<pat>>

\* Body::pattern_representative: the first pattern of the group
pattern_representative(body, pat) == Head(ident_patterns_for(body, pat))

Local(parent, pat_id) == [parent |-> parent, pat_id |-> pat_id]
Locals == {Local(parent, pat) : parent \in DefWithBodyIds, pat \in LocalPats}

\* a variant that answers the local after this one among its associated locals
representative_following(self, bodies) ==
    LET pats == ident_patterns_for(bodies[self.parent], self.pat_id)
        k == CHOOSE i \in DOMAIN pats : pats[i] = self.pat_id
    IN  Local(self.parent, pats[(k % Len(pats)) + 1])

\* Local::representative; bodies is db.body
representative(self, bodies) ==
    LET body == bodies[self.parent]
    IN  Local(self.parent, pattern_representative(body, self.pat_id))

Local_representative ==
    /\ op = "idle"
    /\ \E self \in Locals, groupings \in [DefWithBodyIds -> Groupings] :
        LET bodies == [d \in DefWithBodyIds |-> or_pats(groupings[d])]
        IN  Call("Local::representative", [self |-> self, bodies |-> bodies],
                 representative(self, bodies), <<>>, FALSE, 0)

NextLocal == Local_representative \/ Return

SpecLocal == Init /\ [][NextLocal]_vars

(***************************************************************************)
(* Soft assertions: Local::name and the derive arms of emit_def_diagnostic *)
(***************************************************************************)
\* the patterns a body can hold at a local's id (hir_def::expr::Pat)
Pats ==
    {[kind |-> "Bind", name |-> "x"], [kind |-> "Bind", name |-> "y"],
     [kind |-> "Wild", name |-> "_"], [kind |-> "Missing", name |-> "_"]}

\* Name::missing()
Name_missing == "[missing name]"

\* Local::name; body is db.body(self.parent).  stdx::never! logs and the
\* match arm goes on.
Local_name(self, body) ==
    IF body[self.pat_id].kind = "Bind" THEN body[self.pat_id].name ELSE Name_missing

LocalName ==
    /\ op = "idle"
    /\ \E self \in Locals, body \in [LocalPats -> Pats] :
        Call("Local::name", [self |-> self, body |-> body], Local_name(self, body),
             <<>>, FALSE, 0)

\* the records of a def map that name an item: unresolved items and derives
ItemDefDiagnostics ==
    {d \in DefDiagnostics : d.kind \in SimpleDefKinds \cup DeriveDefKinds}

\* emit_def_diagnostic for each record of the def map in turn, as the loop of
\* Module::diagnostics calls it
Emitted(a, out) ==
    /\ op' = "emit_def_diagnostic"
    /\ arg' = a
    /\ ret' = <<>>
    /\ acc' = out.acc
    /\ panicked' = out.panicked
    /\ UNCHANGED <<calls, envs_built>>

EmitDefDiagnostics ==
    /\ op = "idle"
    /\ \E n \in 0..MaxDiags, acc0 \in CallerAccs : \E recorded \in [1..n -> ItemDefDiagnostics] :
        Emitted([recorded |-> recorded, acc0 |-> acc0], run_loops(recorded, acc0))

(***************************************************************************)
(* Associated items                                                        *)
(***************************************************************************)
\* ItemContainerId: where an item is declared
ItemContainerId(tag, id) == [tag |-> tag, id |-> id]
ItemContainerIds ==
    {ItemContainerId(tag, id) :
        tag \in {"TraitId", "ImplId", "ModuleId", "ExternBlockId"}, id \in {"a", "b"}}

\* the definitions as_assoc_item is asked about, each with the container its
\* id.lookup(db) gives
ContainedDefs ==
    {[kind |-> k, container |-> c] :
        k \in {"Function", "Const", "TypeAlias", "Struct", "Static"}, c \in ItemContainerIds}

AssocItem(ctor, def) == [ctor |-> ctor, def |-> def]

\* a variant that does not look at the container
as_assoc_item_anywhere(def) ==
    IF def.kind \in {"Function", "Const", "TypeAlias"} THEN Some(AssocItem(def.kind, def))
    ELSE None

\* AsAssocItem for ModuleDef, Function, Const and TypeAlias, and the function
\* as_assoc_item they call
as_assoc_item(def) ==
    IF def.kind \in {"Function", "Const", "TypeAlias"}
        THEN IF def.container.tag \in {"TraitId", "ImplId"}
                 THEN Some(AssocItem(def.kind, def))
                 ELSE None
        ELSE None

\* AssocItem::container
AssocItem_container(self) ==
    LET container == self.def.container
    IN  CASE container.tag = "TraitId" ->
                [panic |-> FALSE, value |-> [kind |-> "Trait", id |-> container.id]]
          [] container.tag = "ImplId" ->
                [panic |-> FALSE, value |-> [kind |-> "Impl", id |-> container.id]]
          [] OTHER ->
                \* panic!("invalid AssocItem")
                [panic |-> TRUE, value |-> <<>>]

AsAssocItem ==
    /\ op = "idle"
    /\ \E def \in ContainedDefs :
        Call("as_assoc_item", [def |-> def], as_assoc_item(def), <<>>, FALSE, 0)

Contained(a, out) == Call("AssocItem::container", a, out.value, <<>>, out.panic, 0)

\* container is asked of an AssocItem that as_assoc_item answered
AssocItemContainer ==
    /\ op = "idle"
    /\ \E def \in ContainedDefs :
        /\ IsSome(as_assoc_item(def))
        /\ Contained([self |-> Unwrap(as_assoc_item(def))],
                     AssocItem_container(Unwrap(as_assoc_item(def))))

(***************************************************************************)
(* Derive argument lists of any shape                                      *)
(***************************************************************************)
MaxTokens == 5

\* the tokens between the parentheses: identifiers, path separators, commas
ListTokens == {Tok("ident", "a"), Tok("ident", "B"), Tok(":", ":"), Tok(",", ",")}

\* the token trees #[derive(..)] can have, up to MaxTokens tokens inside
TokenTrees ==
    UNION {{<<Tok("(", "(")>> \o body \o <<Tok(")", ")")>> : body \in [1..n -> ListTokens]} :
              n \in 0..MaxTokens}

\* the derive arm of precise_macro_call_location on an attribute with this
\* token tree: the token whose range and text it returns
DeriveToken ==
    /\ op = "idle"
    /\ \E tokens \in TokenTrees, derive_index \in 0..(MaxTokens - 3) :
        Call("precise_macro_call_location",
             [tokens |-> tokens, derive_index |-> derive_index],
             token_in_list(tokens, derive_index), <<>>, FALSE, 0)

(***************************************************************************)
(* Impl::all_for_type                                                      *)
(***************************************************************************)
MaxCrates == 3
Crates == 0..(MaxCrates - 1)

\* the crate graph: the dependencies of each crate, without cycles
CrateGraphs ==
    {g \in [Crates -> SUBSET Crates] : \A c \in Crates : \A d \in g[c] : d < c}

\* CrateGraph::transitive_rev_deps: the crates that depend on krate, directly
\* or through others
RECURSIVE rev_deps_from(_, _, _)
rev_deps_from(graph, found, n) ==
    IF n = 0 THEN found
    ELSE rev_deps_from(graph, found \cup {c \in Crates : graph[c] \cap found # {}}, n - 1)

transitive_reverse_dependencies(graph, krate) ==
    ascending(rev_deps_from(graph, {krate}, MaxCrates) \ {krate})

\* method_resolution::def_crates: the crates that may hold inherent impls of
\* the type, or None for a type without any
DefCrates ==
    {None} \cup {Some(<<c>>) : c \in Crates}
        \cup {Some(<<p[1], p[2]>>) : p \in {q \in Crates \X Crates : q[1] # q[2]}}

\* the impls of the crates: one inherent and one trait impl for the type's
\* fingerprint in each crate
ImplOf(kind, krate) == [kind |-> kind, krate |-> krate]
AllImpls == {ImplOf(kind, krate) : kind \in {"inherent", "trait"}, krate \in Crates}

\* a variant that keeps the repetitions
not_unique(seq) == seq

\* Itertools::unique: the first occurrence of each element
RECURSIVE unique(_)
unique(seq) ==
    IF seq = <<>> THEN <<>>
    ELSE LET init == unique(SubSeq(seq, 1, Len(seq) - 1))
             last == seq[Len(seq)]
         IN  IF last \in Range(init) THEN init ELSE Append(init, last)

\* the impls of one kind a crate has for the type, those the filter keeps
impls_in_crate(kind, krate, filtered) ==
    IF ImplOf(kind, krate) \in filtered THEN <<>> ELSE <<ImplOf(kind, krate)>>

\* Impl::all_for_type; filtered are the impls whose self type has another
\* constructor (filter answers false)
all_for_type(graph, def_crates, has_fingerprint, filtered) ==
    IF IsNone(def_crates) \/ ~has_fingerprint THEN <<>>
    ELSE LET crates == Unwrap(def_crates)
             inherent == Flatten([i \in DOMAIN crates |->
                                     impls_in_crate("inherent", crates[i], filtered)])
             scanned == unique(Flatten([i \in DOMAIN crates |->
                                           transitive_reverse_dependencies(graph, crates[i])])
                                   \o crates)
         IN  inherent \o Flatten([i \in DOMAIN scanned |->
                                     impls_in_crate("trait", scanned[i], filtered)])

AllForType ==
    /\ op = "idle"
    /\ \E graph \in CrateGraphs, def_crates \in DefCrates, has_fingerprint \in BOOLEAN,
          filtered \in {{}} \cup {{i} : i \in AllImpls} :
        Call("Impl::all_for_type",
             [graph |-> graph, def_crates |-> def_crates, has_fingerprint |-> has_fingerprint,
              filtered |-> filtered],
             all_for_type(graph, def_crates, has_fingerprint, filtered), <<>>, FALSE, 0)

NextDefs == DeriveToken \/ AllForType \/ LocalName \/ EmitDefDiagnostics \/ AsAssocItem \/ AssocItemContainer \/ Return

SpecDefs == Init /\ [][NextDefs]_vars

(***************************************************************************)
(* Claims about Module::scope and ScopeDef::all_items (SpecScope).          *)
(***************************************************************************)
\* the ScopeDefs the result pairs with name n, in result order
EntriesOf(res, n) ==
    LET mine == SelectSeq(res, LAMBDA e : e[1] = n)
    IN  [i \in 1..Len(mine) |-> mine[i][2]]

ScopeCalled == op = "Module::scope"

\* every definition of the slot is hidden from the requesting module
AllHidden(n) ==
    /\ IsSome(arg.visible_from)
    /\ ~PerNs_is_none(arg.entries[n])
    /\ PerNs_is_none(filter_visibility(arg.tree, arg.entries[n], Unwrap(arg.visible_from)))

\* C4 as stated: a name whose definitions are all removed by visibility
\* filtering still appears in the result of Module::scope, paired with exactly
\* one ScopeDef::Unknown placeholder.
C4_HiddenNameKeptAsUnknown ==
    ScopeCalled =>
        \A n \in Names : AllHidden(n) => EntriesOf(ret, n) = <<ScopeDefUnknown>>

\* C4 amended: a name whose definitions are all removed by visibility filtering
\* is omitted from the result of Module::scope (no entry carries it); the
\* Unknown placeholder is emitted exactly for a name whose slot holds no
\* definition at all, and a name with a visible definition is never Unknown.
C4_HiddenNameOmitted ==
    ScopeCalled =>
        \A n \in Names :
            /\ AllHidden(n) => EntriesOf(ret, n) = <<>>
            /\ PerNs_is_none(arg.entries[n]) <=> EntriesOf(ret, n) = <<ScopeDefUnknown>>
            /\ ~PerNs_is_none(arg.entries[n]) =>
                   \A i \in DOMAIN EntriesOf(ret, n) : EntriesOf(ret, n)[i].tag = "ModuleDef"

C4_Witness ==
    /\ ScopeCalled
    /\ \E n \in Names : AllHidden(n) /\ IsSome(arg.entries[n].types)
                        /\ IsSome(arg.entries[n].macros)

\* the slot all_items receives for name n: the raw slot, or the filtered one
\* when a requesting module is given
SeenSlot(n) ==
    IF IsSome(arg.visible_from)
        THEN filter_visibility(arg.tree, arg.entries[n], Unwrap(arg.visible_from))
        ELSE arg.entries[n]

\* C5: for each name of the result of Module::scope, with t the type-namespace
\* and v the value-namespace definition of its slot: t then v when both are
\* held and differ, one entry when they are equal (or only one is held), one
\* further Macro entry after them when a macro is bound, exactly one Unknown
\* when the slot holds nothing, and never more than 3 entries.
C5_AllItemsEntries ==
    ScopeCalled =>
        \A n \in Names :
            LET e == EntriesOf(ret, n)
                d == SeenSlot(n)
                hasT == IsSome(d.types)
                hasV == IsSome(d.values)
                hasM == IsSome(d.macros)
                nItems == IF hasT /\ hasV
                              THEN (IF Unwrap(d.types).def # Unwrap(d.values).def THEN 2 ELSE 1)
                              ELSE (IF hasT \/ hasV THEN 1 ELSE 0)
            IN  /\ IsNone(arg.visible_from) => e # <<>>
                /\ e # <<>> =>
                    /\ Len(e) <= 3
                    /\ PerNs_is_none(d) => e = <<ScopeDefUnknown>>
                    /\ ~PerNs_is_none(d) => Len(e) = nItems + (IF hasM THEN 1 ELSE 0)
                    /\ hasT => e[1] = ScopeDefModuleDef(Unwrap(d.types).def)
                    /\ hasV => e[nItems] = ScopeDefModuleDef(Unwrap(d.values).def)
                    /\ hasM => e[Len(e)] = ScopeDefMacro(Unwrap(d.macros).def)

C5_Witness ==
    /\ ScopeCalled
    /\ \E n \in Names :
        /\ IsSome(SeenSlot(n).types) /\ IsSome(SeenSlot(n).values) /\ IsSome(SeenSlot(n).macros)
        /\ Unwrap(SeenSlot(n).types).def = Unwrap(SeenSlot(n).values).def
        /\ Len(EntriesOf(ret, n)) = 2

(***************************************************************************)
(* Claims about DefWithBody::diagnostics and emit_def_diagnostic (Spec).    *)
(***************************************************************************)
BodyDiagnosticsCalled == op = "DefWithBody::diagnostics"

\* what the call appended to the accumulator it was given
Appended == SubSeq(acc, Len(arg.acc0) + 1, Len(acc))

Count(seq, Test(_)) == Len(SelectSeq(seq, Test))

\* the diagnostics located through the body source map, by the stage read
LocatedKinds ==
    {"NoSuchField", "BreakOutsideOfLoop", "MismatchedArgCount", "TypeMismatch",
     "MissingUnsafe", "MissingFields", "ReplaceFilterMapNextWithFindMap", "MissingMatchArms"}

\* the pointer is one the source map gave for a node that has source text
ConcretePointer(ptr) ==
    CASE ptr[1] \in {"expr", "scrutinee"} -> ExprNodes[ptr[2]].mapped
      [] ptr[1] = "pat" -> PatNodes[ptr[2]].mapped
      [] ptr[1] = "field" -> ptr[2] \in field_map_back
      [] OTHER -> FALSE

\* the recorded diagnostic is about a node the source map reports as synthetic
OnSynthetic(r) ==
    /\ r.stage \in 3..6
    /\ IF r.kind = "RecordMissingFieldsPat" THEN ~PatNodes[r.id].mapped
       ELSE IF r.kind = "NoSuchField" THEN r.id \notin field_map_back
       ELSE ~ExprNodes[r.id].mapped

\* C1: every diagnostic DefWithBody::diagnostics appends for an inference,
\* type-mismatch, missing-unsafe or body-validation record carries a pointer
\* the source map returned as a concrete location, and no diagnostic is
\* appended for a record whose node the source map reports as synthetic.
C1_NoDiagnosticAtSyntheticNode ==
    BodyDiagnosticsCalled =>
        /\ \A i \in DOMAIN Appended :
               Appended[i].kind \in LocatedKinds => ConcretePointer(Appended[i].node)
        /\ Count(Appended, LAMBDA d : d.kind \in LocatedKinds)
               <= Count(arg.recorded, LAMBDA r : r.stage \in 3..6 /\ ~OnSynthetic(r))

C1_Witness ==
    /\ BodyDiagnosticsCalled
    /\ ~panicked
    /\ Len(arg.recorded) = 2
    /\ arg.recorded[1].kind = "MismatchedArgCount" /\ arg.recorded[1].id = "synthetic"
    /\ arg.recorded[2].kind = "RecordMissingFieldsPat" /\ arg.recorded[2].id = "rec_pat"
    /\ Len(Appended) = 1
    /\ Appended[1].node = Ptr("pat", "rec_pat", 0, 0)

\* C2 as stated: when the location of one recorded diagnostic cannot be
\* computed only that diagnostic is omitted: the call does not abort, and every
\* recorded diagnostic that yields a diagnostic on its own is appended, in order.
C2_OnlyThatDiagnosticOmitted ==
    BodyDiagnosticsCalled =>
        /\ ~panicked
        /\ Appended = Flatten([i \in DOMAIN arg.recorded |-> diagnostics_step(arg.recorded[i]).push])

\* the token the precise location of a macro call is computed from is missing
TokenMissing(call) ==
    CASE call.tag = "FnLike" ->
            ~(MacroCallNodes[call.ast_id].segment /\ MacroCallNodes[call.ast_id].name_ref)
      [] call.tag = "Derive" -> IsNone(derive_token(call))
      [] call.tag = "Attr" ->
            LET attr == Nth(ItemNodes[call.ast_id].attrs, call.attr_index)
            IN  IsNone(attr) \/ ~Unwrap(attr).is_attr

\* the whole macro-invocation node of a call
InvocationNode(call) ==
    IF call.tag = "FnLike" THEN Ptr("macro_call", call.ast_id, 0, 0)
    ELSE Ptr("item", call.ast_id, 0, 0)

\* C3 as stated: for each of the three macro call kinds a recorded macro
\* diagnostic is always emitted and the call never aborts; when the expected
\* token cannot be found the diagnostic is located at the whole
\* macro-invocation node, with no precise range.
C3_MacroDiagnosticNeverSuppressed ==
    (/\ BodyDiagnosticsCalled
     /\ Len(arg.recorded) = 1
     /\ arg.recorded[1].stage = 1
     /\ arg.recorded[1].kind \in MacroDefKinds) =>
        /\ ~panicked
        /\ Len(Appended) = 1
        /\ TokenMissing(arg.recorded[1].call) =>
               /\ Appended[1].node = InvocationNode(arg.recorded[1].call)
               /\ Appended[1].precise_location = None

(***************************************************************************)
(* Claims about the Type facade (SpecType).                                *)
(***************************************************************************)
\* C6 as stated: impls_trait and is_copy return true only when the solver
\* reports a definite (unique) solution; on an ambiguous result, or none, they
\* return false.
C6_TrueOnlyOnDefinitePositive ==
    (op \in {"Type::impls_trait", "Type::is_copy"} /\ ~panicked) =>
        (ret = TRUE => arg.solution = Some("Unique"))

\* C6: impls_trait returns true exactly when the solver reports some solution,
\* unique or ambiguous, and false only when it reports none; is_copy does the
\* same once the crate's "copy" lang item is a trait, and is false otherwise.
C6_TrueOnAnySolution ==
    /\ (op = "Type::impls_trait" /\ ~panicked) =>
            (ret = TRUE <=> arg.solution \in {Some("Unique"), Some("Ambig")})
    /\ op = "Type::is_copy" =>
            /\ ~panicked
            /\ ret = TRUE <=> (/\ arg.lang_item = Some("TraitId")
                               /\ arg.solution \in {Some("Unique"), Some("Ambig")})

C6_Witness ==
    /\ op = "Type::impls_trait"
    /\ ~panicked
    /\ arg.solution = Some("Ambig")
    /\ arg.params = <<"Type">>
    /\ ret = TRUE

\* C7: impls_fnonce returns true only when the FnOnce trait is found for the
\* crate and the solver's solution is unique; it is false on an ambiguous
\* result, on no solution, and when the trait is not found.
C7_FnOnceNeedsUniqueSolution ==
    op = "Type::impls_fnonce" =>
        /\ ~panicked
        /\ ret = TRUE <=> (IsSome(arg.fnonce_trait) /\ arg.solution = Some("Unique"))
        /\ arg.solution = Some("Ambig") => ret = FALSE
        /\ IsNone(arg.fnonce_trait) => ret = FALSE

C7_Witness ==
    /\ op = "Type::impls_fnonce"
    /\ IsSome(arg.fnonce_trait)
    /\ arg.solution = Some("Ambig")
    /\ ret = FALSE

ScanOps ==
    {"Type::iterate_assoc_items", "Type::iterate_method_candidates",
     "Type::iterate_path_candidates"}

\* the candidates the scan offers to the caller's callback, in order: a method
\* scan offers the functions only
Offered ==
    IF op = "Type::iterate_method_candidates"
        THEN SelectSeq(arg.candidates, LAMBDA c : c.kind = "FunctionId")
        ELSE arg.candidates

\* the positions of the offered candidates the callback answers Some for
Accepted == {k \in DOMAIN Offered : Offered[k] \in arg.accept}

\* C8: in the three scans the callback is invoked for the offered candidates
\* in order up to and including the first one it answers Some(v) for, never
\* for a later one, and the scan returns that Some(v); when it answers None
\* for every candidate it is invoked for all of them and the scan returns None.
C8_FirstAcceptanceShortCircuits ==
    op \in ScanOps =>
        IF Accepted = {}
            THEN calls = Offered /\ ret = None
            ELSE LET first == CHOOSE k \in Accepted : \A l \in Accepted : k <= l
                 IN  /\ calls = SubSeq(Offered, 1, first)
                     /\ ret = callback(arg.accept, Offered[first])

C8_Witness ==
    /\ op = "Type::iterate_assoc_items"
    /\ Len(Offered) = 3
    /\ Accepted = {2, 3}
    /\ Len(calls) = 2
    /\ ret = Some(<<"v", Offered[2].id>>)

DerivedOps ==
    {"Type::as_reference", "Type::remove_ref", "Type::strip_references",
     "Type::strip_reference", "Type::reference", "Type::new_slice", "Type::fields",
     "Type::tuple_fields", "Type::autoderef", "Type::type_arguments",
     "Type::normalize_trait_assoc_type", "Type::walk", "Callable::params",
     "Callable::return_type"}

\* the Types the last call handed to its caller
ResultTypes ==
    CASE op = "Type::as_reference" -> {o.ty : o \in Range(ret)}
      [] op \in {"Type::remove_ref", "Type::normalize_trait_assoc_type", "Type::tuple_fields",
                 "Type::autoderef", "Type::type_arguments"} -> Range(ret)
      [] op \in {"Type::strip_references", "Type::strip_reference", "Type::reference",
                 "Type::new_slice", "Callable::return_type"} -> {ret}
      [] op = "Type::fields" -> {f.ty : f \in Range(ret)}
      [] op = "Callable::params" -> {p[2] : p \in Range(ret)}
      [] op = "Type::walk" -> Range(calls)
      [] OTHER -> {}

\* C9: every Type a derivation hands out carries the environment handle of the
\* Type it was derived from, and the derivation builds or queries no
\* environment.
C9_DerivedTypesShareEnvironment ==
    op \in DerivedOps =>
        /\ envs_built = 0
        /\ \A t \in ResultTypes : t.env = arg.self.env

C9_Witness ==
    /\ op = "Type::walk"
    /\ arg.self.env = 2
    /\ Len(calls) >= 3
    /\ \A i \in DOMAIN calls : calls[i].env = 2

\* the type holds an unknown (error) type somewhere
RECURSIVE contains_unknown(_)
contains_unknown(ty) ==
    ty.kind = "Error" \/ \E i \in DOMAIN ty.args : contains_unknown(ty.args[i])

AutoderefCalled == op = "Type::autoderef"

\* C10 as stated: autoderef yields a finite sequence, within the fixed number
\* of steps, whose first element is the starting type itself.
C10_AutoderefStartsWithSelf ==
    AutoderefCalled =>
        /\ Len(ret) >= 1
        /\ Len(ret) <= AUTODEREF_RECURSION_LIMIT + 1
        /\ ret[1] = arg.self

\* C10: autoderef yields a finite sequence, within the fixed number of steps,
\* cyclic dereference included; its first element is the starting type with
\* every unknown in it replaced by a variable, which is the starting type
\* itself when it holds no unknown.
C10_AutoderefFiniteFromCanonicalSelf ==
    AutoderefCalled =>
        /\ Len(ret) >= 1
        /\ Len(ret) <= AUTODEREF_RECURSION_LIMIT + 1
        /\ ret[1].env = arg.self.env
        /\ ret[1].ty = replace_errors_with_variables(arg.self.ty)
        /\ ~contains_unknown(ret[1].ty)
        /\ ~contains_unknown(arg.self.ty) => ret[1] = arg.self

C10_Witness ==
    /\ AutoderefCalled
    /\ arg.self.ty = TyAdt("Loop", <<>>)
    /\ Len(ret) = AUTODEREF_RECURSION_LIMIT + 1
    /\ ret[1] = arg.self

(***************************************************************************)
(* Claims about the derive diagnostics of emit_def_diagnostic (Spec).      *)
(***************************************************************************)
\* a MalformedDerive record is the only thing recorded
MalformedDeriveRecorded ==
    /\ BodyDiagnosticsCalled
    /\ Len(arg.recorded) = 1
    /\ arg.recorded[1].kind = "MalformedDerive"

\* the 0-based position, among the doc comments and attributes of the item, of
\* its id-th attribute, if it has that many
NthAttribute(item, id) ==
    LET elems == ItemNodes[item].attrs
    IN  {p \in 0..(Len(elems) - 1) :
            /\ elems[p + 1].is_attr
            /\ Cardinality({q \in 1..p : elems[q].is_attr}) = id}

\* C11 as stated: the diagnostic emitted for a MalformedDerive record is
\* located at the token of one entry of the derive attribute, not at the whole
\* attribute.
C11_MalformedDeriveAtEntryToken ==
    MalformedDeriveRecorded =>
        \A i \in DOMAIN Appended :
            \/ Appended[i].node[1] = "token"
            \/ /\ IsSome(Appended[i].precise_location)
               /\ Unwrap(Appended[i].precise_location)[1] = "token"

\* C11: a MalformedDerive record names an item and the index of one of its
\* attributes, and no entry; the diagnostic emitted for it is located at that
\* whole attribute, with no narrower span, and nothing is emitted (and nothing
\* aborts) when the item has no attribute at that index.
C11_MalformedDeriveAtWholeAttribute ==
    MalformedDeriveRecorded =>
        LET d == arg.recorded[1]
            at == NthAttribute(d.ast, d.id)
        IN  /\ ~panicked
            /\ IF at = {} THEN Appended = <<>>
               ELSE /\ Len(Appended) = 1
                    /\ Appended[1].kind = "MalformedDerive"
                    /\ \E p \in at : Appended[1].node = Ptr("attr", d.ast, p, 0)
                    /\ Appended[1].precise_location = None

C11_Witness ==
    /\ MalformedDeriveRecorded
    /\ arg.recorded[1].ast = "commented"
    /\ arg.recorded[1].id = 0
    /\ Len(Appended) = 1
    /\ Appended[1].node = Ptr("attr", "commented", 1, 0)

(***************************************************************************)
(* Claims about the MissingFields diagnostic (Spec).                       *)
(***************************************************************************)
\* a record-missing-fields finding, for a literal or a pattern, is the only
\* thing recorded
MissingFieldsRecorded ==
    /\ BodyDiagnosticsCalled
    /\ Len(arg.recorded) = 1
    /\ arg.recorded[1].kind \in {"RecordMissingFields", "RecordMissingFieldsPat"}

\* the position of a field name in the declaration
DeclaredAt(variant, name) ==
    CHOOSE i \in DOMAIN VariantFields[variant] : VariantFields[variant][i] = name

\* C12: the MissingFields diagnostic for a record literal or pattern lists
\* exactly the declared fields the literal does not name, each once, in the
\* order of the declaration.
C12_MissingFieldsInDeclaredOrder ==
    MissingFieldsRecorded =>
        \A k \in DOMAIN Appended :
            LET r == arg.recorded[1]
                missed == Appended[k].missed_fields
            IN  /\ Appended[k].kind = "MissingFields"
                /\ Range(missed) = Range(VariantFields[r.variant])
                                        \ Range(RecordLiterals[r.literal])
                /\ \A i, j \in DOMAIN missed :
                       i < j => DeclaredAt(r.variant, missed[i]) < DeclaredAt(r.variant, missed[j])

C12_Witness ==
    /\ MissingFieldsRecorded
    /\ arg.recorded[1].id = "rec"
    /\ arg.recorded[1].literal = "lit_a"
    /\ Len(Appended) = 1
    /\ Appended[1].missed_fields = <<"b", "c">>

(***************************************************************************)
(* Claims about Module::diagnostics (SpecModule).                          *)
(***************************************************************************)
ModuleDiagnosticsCalled == op = "Module::diagnostics"

\* the child modules declared in a module
ChildModules(module) ==
    {d.id : d \in {e \in Range(ModuleData[module].declarations) : e.kind = "Module"}}

\* what lives in each module itself: its log entries (owned by its name), the
\* items it declares, with their parts, and its impls
OwnedIn ==
    [root        |-> {"root", "g", "T", "data T", "T::f", "T::C", "E", "E::V", "St",
                      "data I", "I::m", "I::c"},
     inline      |-> {"inline", "h"},
     file        |-> {"file", "k", "data J", "J::m"},
     nested_file |-> {"nested_file", "n"},
     file_inline |-> {"file_inline", "l"}]

\* a module and its descendants
RECURSIVE Under(_)
Under(module) == {module} \cup UNION {Under(c) : c \in ChildModules(module)}

OwnedUnder(module) == UNION {OwnedIn[m] : m \in Under(module)}

\* the owners of the appended diagnostics
AppendedOwners == {acc[i].owner : i \in DOMAIN acc}

\* C13: a call on M goes into a child module declared in M exactly when the
\* child is inline: what an inline child owns is reported (its functions'
\* findings, and its log entries are converted), and for a file-backed child
\* nothing owned by it or by a descendant of it is appended or converted.
C13_RecursesIntoInlineChildrenOnly ==
    ModuleDiagnosticsCalled =>
        \A c \in ChildModules(arg.module) :
            IF ModuleData[c].origin = "Inline"
                THEN ~panicked =>
                        /\ (arg.faulty \cap OwnedIn[c]) \subseteq AppendedOwners
                        /\ \A k \in DOMAIN arg.log :
                               arg.log[k].in_module = c =>
                                   \E j \in DOMAIN calls :
                                       calls[j] = [module |-> c, entry |-> arg.log[k]]
                ELSE /\ AppendedOwners \cap OwnedUnder(c) = {}
                     /\ \A j \in DOMAIN calls : calls[j].module \notin Under(c)

C13_Witness ==
    /\ ModuleDiagnosticsCalled
    /\ arg.module = "root"
    /\ arg.faulty = {"h", "l"}
    /\ Len(arg.log) = 2
    /\ arg.log[1].in_module = "file"
    /\ arg.log[2].in_module = "inline"
    /\ ~panicked
    /\ AppendedOwners = {"h", "inline"}
    /\ Len(calls) = 1

\* the functions and constants a trait or impl holds
BodiesOf(container) ==
    {i.id : i \in {a \in Range(AssocItems[container]) : a.kind \in {"Function", "Const"}}}

\* the traits and the impls of a module
ContainersOf(module) ==
    {d.id : d \in {e \in Range(ModuleData[module].declarations) : e.kind = "Trait"}}
        \cup Range(ModuleData[module].impl_defs)

\* C14 as stated: for every trait and every impl of the module the call
\* appends the container's own diagnostics and the body diagnostics of each
\* function and constant the container holds.
C14_ContainersAndTheirItems ==
    (ModuleDiagnosticsCalled /\ ~panicked) =>
        \A c \in ContainersOf(arg.module) :
            (arg.faulty \cap ({"data " \o c} \cup BodiesOf(c))) \subseteq AppendedOwners

\* the log entries the per-module stage of the visited module handed over
StageOf(module) ==
    LET mine == SelectSeq(calls, LAMBDA c : c.module = module)
    IN  [i \in 1..Len(mine) |-> mine[i].entry]

\* C15: the per-module stage of the visited module converts the log entries
\* owned by that module, in log order, passing over none and taking no entry
\* of another module; it stops short only when the conversion of its last
\* entry aborts the call.
C15_StageConvertsOwnedEntriesInOrder ==
    ModuleDiagnosticsCalled =>
        LET stage == StageOf(arg.module)
            owned == SelectSeq(arg.log, LAMBDA e : e.in_module = arg.module)
        IN  /\ Len(stage) <= Len(owned)
            /\ stage = SubSeq(owned, 1, Len(stage))
            /\ Len(stage) < Len(owned) =>
                   /\ panicked
                   /\ stage # <<>>
                   /\ stage[Len(stage)].diag.kind = "UnimplementedBuiltinMacro"

C15_Witness ==
    /\ ModuleDiagnosticsCalled
    /\ arg.module = "inline"
    /\ ~panicked
    /\ Len(arg.log) = 2
    /\ arg.log[1].in_module = "root"
    /\ arg.log[2].in_module = "inline"
    /\ StageOf("inline") = <<arg.log[2]>>
    /\ Len(acc) = 1

(***************************************************************************)
(* Claims about Type::walk, checked under SpecType.                        *)
(***************************************************************************)
WalkCalled == op = "Type::walk"

\* the type the walk looks at: the receiver without its reference layers
Walked == ty_strip_references(arg.self.ty)

\* the emissions of walking each of the given arguments, first to last
WalkEach(self, tys) ==
    Flatten([i \in 1..Len(tys) |-> walk_type(derived(self, tys[i]))])

\* C16: when the walk looks at an ADT, or at an associated type that has a
\* parent trait, cb receives that type first, and then what the walks of its
\* type arguments emit, argument by argument from left to right.
C16_ConstructorBeforeArguments ==
    (WalkCalled /\ (Walked.kind = "Adt" \/ IsSome(associated_type_parent_trait(Walked)))) =>
        /\ calls # <<>>
        /\ Head(calls) = derived(arg.self, Walked)
        /\ Tail(calls) = WalkEach(arg.self, ty_args(Walked.args))

C16_Witness ==
    /\ WalkCalled
    /\ arg.self.ty = TyAdt("Pair", <<TyAdt("Vec", <<ParamT>>), TyAdt("En", <<i32>>)>>)
    /\ calls = <<derived(arg.self, TyAdt("Pair", <<TyAdt("Vec", <<ParamT>>), TyAdt("En", <<i32>>)>>)),
                 derived(arg.self, TyAdt("Vec", <<ParamT>>)),
                 derived(arg.self, ParamT),
                 derived(arg.self, TyAdt("En", <<i32>>))>>


\* the bounds walk_type takes from the type it looks at
BoundsOf(ty) ==
    CASE ty.kind = "Dyn" -> dyn_bounds(ty)
      [] ty.kind \in {"OpaqueType", "AliasOpaque", "Placeholder"}
            /\ IsSome(impl_trait_bounds(ty)) -> Unwrap(impl_trait_bounds(ty))
      [] OTHER -> <<>>

\* the trait bounds among them
TraitBounds(ty) == SelectSeq(BoundsOf(ty), LAMBDA pred : pred.kind = "Implemented")

\* the number of times cb received the type
Emissions(type_) == Cardinality({i \in DOMAIN calls : calls[i] = type_})

\* For a walked type X that carries trait bounds: per bound Trait<Self, A1..An>,
\* in the order of the bounds, cb receives X and then what the walks of
\* A1..An emit; the Self argument is not walked, so X is received once per
\* trait bound and no more; the type's own arguments follow for an opaque type.
BoundedTypeBeforeBoundArguments ==
    (WalkCalled /\ TraitBounds(Walked) # <<>>) =>
        LET X == derived(arg.self, Walked)
            bounds == TraitBounds(Walked)
        IN  /\ Head(calls) = X
            /\ Emissions(X) = Len(bounds)
            /\ calls =
                Flatten([i \in 1..Len(bounds) |->
                            <<X>> \o WalkEach(X, ty_args(Tail(bounds[i].substitution)))])
                \o (IF Walked.kind = "Placeholder" \/ Walked.kind = "Dyn"
                       THEN <<>> ELSE WalkEach(arg.self, ty_args(Walked.args)))

\* C17 as stated: the above, and the walk of Vec<T> with T: Trait<U> emits
\* Vec<T>, T, U.
C17_BoundArgumentsEmitted ==
    /\ BoundedTypeBeforeBoundArguments
    /\ (WalkCalled /\ Walked = TyAdt("Vec", <<ParamT>>)) =>
            calls = <<derived(arg.self, Walked), derived(arg.self, ParamT),
                      derived(arg.self, ParamU)>>

\* C17: the above, and the walk of Vec<T> with T: Trait<U> emits Vec<T>, T:
\* the walk of the bound's argument U emits nothing, U being a type parameter
\* that carries no trait bound of its own.
C17_BoundedTypeBeforeBoundArguments ==
    /\ BoundedTypeBeforeBoundArguments
    /\ (WalkCalled /\ Walked = TyAdt("Vec", <<ParamT>>)) =>
            calls = <<derived(arg.self, Walked), derived(arg.self, ParamT)>>

C17_Witness ==
    /\ WalkCalled
    /\ arg.self.ty = Ty("OpaqueType", "impl Trait<U>", <<ParamU>>)
    /\ calls = <<arg.self, derived(arg.self, TyAdt("Vec", <<ParamT>>)),
                 derived(arg.self, ParamT)>>


(***************************************************************************)
(* Claims about the order of method candidates, checked under SpecType.    *)
(***************************************************************************)
MethodScan == op = "Type::iterate_method_candidates"

\* the functions the receiver type has from impls of the given origin
MethodsOf(origin) ==
    {item \in Range(ItemOrder) : item.kind = "FunctionId" /\ arg.methods[item.id] = origin}

\* the callback accepts whatever it is offered first
AcceptsFirst ==
    \A item \in Range(ItemOrder) : item.kind = "FunctionId" => item \in arg.accept

\* the positions at which the callback was invoked with the item
InvokedAt(item) == {k \in DOMAIN calls : calls[k] = item}

\* C18: on a type that has an inherent method and a trait method, a callback
\* that the scan invokes with both is invoked with the inherent one first,
\* and a callback that accepts the first candidate is invoked once, with an
\* inherent method, whose acceptance the scan returns.
C18_InherentBeforeTrait ==
    (MethodScan /\ MethodsOf("inherent") # {} /\ MethodsOf("trait") # {}) =>
        /\ \A i \in MethodsOf("inherent"), t \in MethodsOf("trait") :
                \A k \in InvokedAt(t) : \E j \in InvokedAt(i) : j < k
        /\ AcceptsFirst =>
                /\ Len(calls) = 1
                /\ calls[1] \in MethodsOf("inherent")
                /\ ret = Some(<<"v", calls[1].id>>)

C18_Witness ==
    /\ MethodScan
    /\ arg.methods = [f1 |-> "trait", f2 |-> "inherent", c1 |-> "inherent"]
    /\ AcceptsFirst
    /\ calls = <<[kind |-> "FunctionId", id |-> "f2"]>>
    /\ ret = Some(<<"v", "f2">>)


(***************************************************************************)
(* Claims about Local::representative, checked under SpecLocal.            *)
(***************************************************************************)
RepresentativeCalled == op = "Local::representative"

\* C19: the representative of a local is its own representative, and it is
\* a local of the body that owns the local it was asked for.
C19_RepresentativeIdempotent ==
    RepresentativeCalled =>
        /\ representative(ret, arg.bodies) = ret
        /\ ret.parent = arg.self.parent

C19_Witness ==
    /\ RepresentativeCalled
    /\ arg.self = Local("const C", 2)
    /\ ident_patterns_for(arg.bodies["const C"], 2) = <<0, 2>>
    /\ ident_patterns_for(arg.bodies["fn f"], 2) = <<1, 2>>
    /\ ret = Local("const C", 0)


(***************************************************************************)
(* Claims about HasVisibility::is_visible_from, checked under SpecScope.   *)
(***************************************************************************)
VisibleFromCalled == op = "HasVisibility::is_visible_from"

\* module a is module d or one of the modules above it in the tree
RECURSIVE AncestorOrSelf(_, _, _)
AncestorOrSelf(tree, a, d) ==
    \/ a = d
    \/ IsSome(tree[d]) /\ AncestorOrSelf(tree, a, Unwrap(tree[d]))

\* C20 as stated: an item visible from module X is visible from every module
\* on path_to_root(X), the ancestors of X.
C20_VisibleFromAncestors ==
    (VisibleFromCalled /\ ret = TRUE) =>
        \A A \in Range(path_to_root(arg.tree, arg.module)) :
            HasVisibility_is_visible_from(arg.tree, arg.item, A)

\* C20: an item visible from module X is visible from every module that has
\* X on its path to the root, the descendants of X.
C20_VisibleFromDescendants ==
    (VisibleFromCalled /\ ret = TRUE) =>
        \A D \in Modules :
            AncestorOrSelf(arg.tree, arg.module, D)
                => HasVisibility_is_visible_from(arg.tree, arg.item, D)

C20_Witness ==
    /\ VisibleFromCalled
    /\ arg.item = [kind |-> "Function", vis |-> VisModule(Root)]
    /\ arg.module = Root
    /\ \E D \in Modules \ {Root} : AncestorOrSelf(arg.tree, Root, D)
    /\ ret = TRUE


(***************************************************************************)
(* Claims about the accumulator and cancellation, checked under SpecInto.  *)
(***************************************************************************)
DiagnosticsCalled == op \in {"DefWithBody::diagnostics", "Module::diagnostics"}

\* a query of the call was cancelled
Cancelled == DiagnosticsCalled /\ IsSome(arg.cancel)

\* what the same call appends to acc0 when no query is cancelled
Uncancelled ==
    IF op = "Module::diagnostics"
        THEN Module_diagnostics_into(arg.faulty, arg.steps, arg.acc0, None).acc
        ELSE DefWithBody_diagnostics_into(arg.recorded, arg.acc0, None).acc

IsPrefix(s, t) == Len(s) <= Len(t) /\ s = SubSeq(t, 1, Len(s))

\* C21 as stated: a cancelled call does not return normally, and the
\* accumulator holds no diagnostic of the cancelled call.
C21_CancelledCallLeavesNothing ==
    Cancelled => panicked /\ acc = arg.acc0

\* C21: a cancelled call does not return normally; the accumulator holds what
\* the caller had put there and, after it, the diagnostics the call pushed
\* before the cancelled query, which are the first ones of the uncancelled call.
C21_CancelledCallUnwinds ==
    Cancelled =>
        /\ panicked
        /\ IsPrefix(arg.acc0, acc)
        /\ IsPrefix(acc, Uncancelled)

C21_Witness ==
    /\ Cancelled
    /\ op = "Module::diagnostics"
    /\ arg.module = "root"
    /\ arg.faulty = {"h"}
    /\ arg.acc0 = <<>>
    /\ Len(acc) = 1
    /\ Len(Uncancelled) = 1
    /\ panicked

\* C28: the diagnostics acc held before the call are still there after it,
\* unchanged and at the same indices, also when the call panics or is
\* cancelled; what the call pushes comes after them.
C28_OnlyAppends ==
    DiagnosticsCalled => IsPrefix(arg.acc0, acc)

C28_Witness ==
    /\ op = "DefWithBody::diagnostics"
    /\ IsNone(arg.cancel)
    /\ arg.acc0 = <<Preexisting>>
    /\ Len(arg.recorded) = 2
    /\ Len(acc) = 3
    /\ acc[1] = Preexisting
    /\ ~panicked


(***************************************************************************)
(* Claims about soft invariant violations, checked under SpecDefs.         *)
(***************************************************************************)
\* Local::name was called on a local whose pattern is not a binding
NameOfNonBinding ==
    /\ op = "Local::name"
    /\ arg.body[arg.self.pat_id].kind # "Bind"

\* the record names an attribute index the item does not have
StaleDerive(d) ==
    /\ d.kind \in DeriveDefKinds
    /\ NthAttribute(d.ast, d.id) = {}

\* the records that still name something, in order
LiveRecords == SelectSeq(arg.recorded, LAMBDA d : ~StaleDerive(d))

\* C22: a soft invariant violation degrades and does not abort.  Local::name on
\* a pattern that is not a binding returns the placeholder name; a derive record
\* whose attribute index no longer exists gives no diagnostic, the call returns
\* normally, and every other record still gives its diagnostic, in order.
C22_SoftViolationsDegrade ==
    /\ NameOfNonBinding => (ret = Name_missing /\ ~panicked)
    /\ op = "emit_def_diagnostic" =>
        /\ ~panicked
        /\ Len(Appended) = Len(LiveRecords)
        /\ \A i \in DOMAIN Appended : Appended[i].kind = DefKindOut(LiveRecords[i].kind)

C22_Witness ==
    /\ op = "emit_def_diagnostic"
    /\ Len(arg.recorded) = 2
    /\ StaleDerive(arg.recorded[1])
    /\ arg.recorded[2].kind = "UnresolvedImport"
    /\ Len(Appended) = 1
    /\ ~panicked


(***************************************************************************)
(* Claims about associated items, checked under SpecDefs.                  *)
(***************************************************************************)
\* C23: as_assoc_item answers an AssocItem for a function, const or type alias
\* exactly when its container is a trait or an impl, and for nothing else; for
\* an AssocItem it answered, AssocItem::container returns that trait or impl
\* and does not panic.
C23_AssocItemHasTraitOrImplContainer ==
    /\ op = "as_assoc_item" =>
        /\ IsSome(ret) <=>
            /\ arg.def.kind \in {"Function", "Const", "TypeAlias"}
            /\ arg.def.container.tag \in {"TraitId", "ImplId"}
        /\ IsSome(ret) => Unwrap(ret).def = arg.def
    /\ op = "AssocItem::container" =>
        /\ ~panicked
        /\ ret.kind \in {"Trait", "Impl"}
        /\ ret.kind = "Trait" <=> arg.self.def.container.tag = "TraitId"
        /\ ret.id = arg.self.def.container.id

C23_Witness ==
    /\ op = "AssocItem::container"
    /\ arg.self.ctor = "Const"
    /\ ret = [kind |-> "Impl", id |-> "b"]


(***************************************************************************)
(* Claims about Module::path_to_root, checked under SpecScope.             *)
(***************************************************************************)
\* C24: path_to_root returns (it terminates) a chain that starts at the module
\* itself, goes from each module to its parent, holds no module twice and ends
\* at a module without parent.
C24_PathToRootIsChainToRoot ==
    op = "Module::path_to_root" =>
        /\ Len(ret) >= 1
        /\ ret[1] = arg.self
        /\ \A i \in 1..(Len(ret) - 1) : Parent(arg.tree, ret[i]) = Some(ret[i + 1])
        /\ \A i, j \in DOMAIN ret : ret[i] = ret[j] => i = j
        /\ IsNone(Parent(arg.tree, ret[Len(ret)]))

C24_Witness ==
    /\ op = "Module::path_to_root"
    /\ Len(ret) = 3
    /\ arg.self = 2


(***************************************************************************)
(* Claims about the token of a derive, checked under SpecDefs.             *)
(***************************************************************************)
\* the identifiers of the argument list
IdentsOf(tokens) == {p \in DOMAIN tokens : tokens[p].kind = "ident"}

\* the commas before position p
CommasBefore(tokens, p) == {q \in 1..(p - 1) : tokens[q].kind = ","}

\* the entry a token belongs to when every comma ends an entry, empty or not
EntryOf(tokens, p) == Cardinality(CommasBefore(tokens, p))

\* the entry a token belongs to when only entries with tokens are counted
\* (stray commas are skipped)
NonEmptyEntryOf(tokens, p) ==
    Cardinality({q \in CommasBefore(tokens, p) : q > 2 /\ tokens[q - 1].kind # ","})

\* ret is an identifier of the entry derive_index under the numbering entry_of,
\* or nothing when that entry has none
TokenOfEntry(entry_of(_, _)) ==
    LET idents == {p \in IdentsOf(arg.tokens) : entry_of(arg.tokens, p) = arg.derive_index}
    IN  IF idents = {} THEN IsNone(ret) ELSE IsSome(ret) /\ Unwrap(ret) \in idents

\* C25: for derive index N the location is an identifier of the N-th (0-based)
\* comma-separated entry of the argument list, whatever the shape of the list;
\* it is read with either numbering of the entries around stray commas, and with
\* any identifier of a path entry.
C25_TokenOfNthEntry ==
    op = "precise_macro_call_location" =>
        \/ TokenOfEntry(EntryOf)
        \/ TokenOfEntry(NonEmptyEntryOf)


(***************************************************************************)
(* Claims about Impl::all_for_type, checked under SpecDefs.                *)
(***************************************************************************)
\* all_for_type was called on a type that has defining crates and a fingerprint
AllForTypeCalled ==
    /\ op = "Impl::all_for_type"
    /\ IsSome(arg.def_crates)
    /\ arg.has_fingerprint

\* crate c depends on crate d, directly or through other crates
RECURSIVE DependsOn(_, _, _)
DependsOn(graph, c, d) ==
    \E e \in graph[c] : e = d \/ DependsOn(graph, e, d)

\* the crates whose trait impls are collected: the defining crates and their
\* transitive reverse dependencies
ScannedCrates ==
    LET defining == Range(Unwrap(arg.def_crates))
    IN  defining \cup {c \in Crates : \E d \in defining : DependsOn(arg.graph, c, d)}

\* the positions of an impl in the list returned
PositionsOf(impl) == {i \in DOMAIN ret : ret[i] = impl}

\* C26: every matching inherent impl of a defining crate is returned, before
\* every trait impl; every matching trait impl of a defining crate or of a
\* transitive reverse dependency of one is returned exactly once, also when its
\* crate is reached in several ways.
C26_InherentFirstEachCrateOnce ==
    AllForTypeCalled =>
        /\ \A c \in Range(Unwrap(arg.def_crates)) :
              ImplOf("inherent", c) \notin arg.filtered => PositionsOf(ImplOf("inherent", c)) # {}
        /\ \A i, j \in DOMAIN ret :
              (ret[i].kind = "inherent" /\ ret[j].kind = "trait") => i < j
        /\ \A c \in ScannedCrates :
              ImplOf("trait", c) \notin arg.filtered =>
                  Cardinality(PositionsOf(ImplOf("trait", c))) = 1

\* crate 1 depends on crate 0 and both define the type: crate 1 is reached as a
\* reverse dependency and as a defining crate
C26_Witness ==
    /\ AllForTypeCalled
    /\ arg.def_crates = Some(<<0, 1>>)
    /\ 0 \in arg.graph[1]
    /\ arg.filtered = {}
    /\ Cardinality(PositionsOf(ImplOf("trait", 1))) = 1
    /\ Len(ret) >= 4


(***************************************************************************)
(* Claims about the diagnostics of a whole crate, checked under SpecModule.*)
(***************************************************************************)
\* the entries of the crate's log owned by the module that record the kind
Recorded(module, kind) ==
    {i \in DOMAIN arg.log : arg.log[i].in_module = module /\ arg.log[i].diag.kind = kind}

\* the diagnostics of the kind appended for the module
Reported(module, kind) ==
    {i \in DOMAIN acc : acc[i].owner = module /\ acc[i].diag.kind = kind}

\* C27: when Module::diagnostics is called once on each file-backed module of
\* the crate, the root included, every name-resolution diagnostic of every
\* module, inline or not, is appended exactly once in all.
C27_EachLogEntryOnce ==
    op = "Module::diagnostics of each file" =>
        \A m \in DOMAIN ModuleData, k \in {"UnresolvedImport", "UnimplementedBuiltinMacro"} :
            Cardinality(Reported(m, k)) = Cardinality(Recorded(m, k))

\* the same for calls that return
C27_EachLogEntryOnceUnlessAborted ==
    (op = "Module::diagnostics of each file" /\ ~panicked) =>
        \A m \in DOMAIN ModuleData, k \in {"UnresolvedImport", "UnimplementedBuiltinMacro"} :
            Cardinality(Reported(m, k)) = Cardinality(Recorded(m, k))


(***************************************************************************)
(* Claims about Callable, checked under SpecType.                          *)
(***************************************************************************)
\* the parameters of the signature, without the first for a bound method
ParamsAfterReceiver(callable) ==
    LET params == callable.sig.params
    IN  IF callable.is_bound_method THEN SubSeq(params, 2, Len(params)) ELSE params

\* C29: params returns one entry for each parameter of the signature, the first
\* left out for a bound method, and n_params returns their number: it neither
\* panics nor underflows, also for a bound method whose signature has no
\* parameters.
C29_ParamsMatchNParams ==
    /\ op = "Callable::params" =>
        /\ Len(ret) = Len(ParamsAfterReceiver(arg.callable))
        /\ \A i \in DOMAIN ret : ret[i][2].ty = ParamsAfterReceiver(arg.callable)[i]
    /\ op = "Callable::n_params" =>
        /\ ~panicked
        /\ ret = Len(ParamsAfterReceiver(arg.callable))

\* the same for callables that have the receiver they are bound to
C29_ParamsMatchNParamsWithReceiver ==
    (arg # <<>> /\ "callable" \in DOMAIN arg
        /\ (arg.callable.is_bound_method => arg.callable.sig.params # <<>>))
    => C29_ParamsMatchNParams


(***************************************************************************)
(* Claims about references under Type::walk, checked under SpecType.       *)
(***************************************************************************)
\* the type without its leading reference layers, however many
RECURSIVE Referent(_)
Referent(ty) == IF ty.kind = "Ref" THEN Referent(ty.args[1]) ELSE ty

\* C30: walk hands no reference type to cb, and a walk of &T, &mut T or &&T
\* hands cb the same types in the same order as a walk of T.
C30_WalkStripsReferences ==
    WalkCalled =>
        /\ \A i \in DOMAIN calls : calls[i].ty.kind # "Ref"
        /\ calls = walk_type(Type(arg.self.env, Referent(arg.self.ty)))

C30_Witness ==
    /\ WalkCalled
    /\ arg.self.ty = TyRef("not", TyRef("mut", ParamT))
    /\ calls # <<>>
    /\ calls[1].ty = ParamT

====
